---- MODULE Spec2Model ----
(***************************************************************************)
(* The device authentication session of IoMT_Blockchain_Security           *)
(* (blockchain/auth_protocol.py and auth_protocol_fallback.py) and the     *)
(* gateway (gateway/__init__.py) as state machines.                        *)
(*                                                                         *)
(* Values.  A Python bytes object is a sequence of integers 0..255, a      *)
(* Python str is a sequence of characters, the character with code point   *)
(* c being the integer 1000 + c, and None is the sequence <<-1>>.  Every   *)
(* value a field or an argument can hold is then a sequence of integers,   *)
(* a bytes object is never equal to a non-empty str or to None, and        *)
(* Python's == and != between such values are TLA+ equality.               *)
(*                                                                         *)
(* Library primitives.  SHA256, HMAC-SHA256 and the AES block function are *)
(* PyCryptodome's, not this repository's: they are modelled by small       *)
(* functions with the library's interface (digest length 32, block length  *)
(* 16, the block function a keyed permutation).  CBC chaining is the       *)
(* library's, with addition modulo 256 in the place of XOR; PKCS#7 padding *)
(* and hex encoding are computed as the library computes them.             *)
(*                                                                         *)
(* Specifications.  Spec: the operations of one session of each class,     *)
(* called in any order with any argument.  SpecAssigned: the same, the     *)
(* session of auth_protocol_fallback.py having been given its keys and     *)
(* being called before the other one.                                      *)
(* SpecHandshake: the handshake of __main__ between a device and the       *)
(* gateway's session.  SpecFresh: the operations with a random source that *)
(* never repeats.  SpecCreate: the construction of sessions over time.     *)
(* SpecMismatch: the handshake when the gateway holds another public key   *)
(* than the device.  SpecReplay: the operations, verify_authentication     *)
(* being given the commitment of the response of start_authentication.     *)
(* SpecPair: the operations of two sessions of blockchain/auth_protocol.py *)
(* in any order, each session also kept as its own calls alone make it.    *)
(* SpecResend: the operations of a session whose caller keeps a message    *)
(* and hands it to decrypt_message again, among other messages.            *)
(* SpecCross: two sessions of blockchain/auth_protocol.py, each handed the  *)
(* messages of the other.                                                  *)
(* SpecGateway: the operations of the IoTMGateway of gateway/__init__.py,   *)
(* called in any order.                                                    *)
(***************************************************************************)
EXTENDS Integers, Sequences, FiniteSets, TLC

VARIABLES sess, sent, last, dev, rng, ivs, clock, alone, held, gw

vars == <<sess, sent, last, dev, rng, ivs, clock, alone, held, gw>>

-----------------------------------------------------------------------------
(* Bounds of the model *)

\* get_random_bytes(n) draws one of MaxRandom values
MaxRandom == 2
\* plaintexts handed to encrypt_message fill up to MaxBlocks blocks
MaxBlocks == 1
\* operations that would make the event log longer than this are not taken
MaxEvents == 4
\* a random source that never repeats is drawn from at most MaxDraws times
MaxDraws == 3
\* the clock is read at 0..MaxClock microseconds
MaxClock == 2
\* the longest event log of a session to which a kept message is sent again
MaxLog == 6
\* gateway operations that would make the audit log longer than this are
\* not taken
MaxAuthLog == 4

-----------------------------------------------------------------------------
(* Program constants *)

KEY_SIZE == 32
EPHEMERAL_SIZE == 32
COMMITMENT_SIZE == 16
\* AES.block_size
BlockSize == 16
\* the length of the IV drawn by encrypt_message
IVSize == 16
\* SHA256.digest_size
DigestSize == 32

-----------------------------------------------------------------------------
(* Python values *)

None == <<-1>>

\* the character with code point c, as an element of a str
Chr(c) == 1000 + c

IsBytes(x) == \A i \in 1..Len(x) : x[i] \in 0..255

IsStr(x) == \A i \in 1..Len(x) : x[i] >= 1000

Fill(n, b) == [i \in 1..n |-> b]

\* x[:n] of a bytes object
Prefix(x, n) == SubSeq(x, 1, IF n < Len(x) THEN n ELSE Len(x))

\* get_random_bytes(n): the values the random source can return
RandomBytes(n) == { Fill(n, v) : v \in 1..MaxRandom }

-----------------------------------------------------------------------------
(* str.encode() and bytes.hex() / bytes.fromhex() *)

\* the lower-case hex digit of n in 0..15
HexDigit(n) == IF n < 10 THEN Chr(48 + n) ELSE Chr(87 + n)

\* the value of a hex digit, upper or lower case; -1 when c is none
HexVal(c) ==
    IF c \in Chr(48)..Chr(57) THEN c - Chr(48)
    ELSE IF c \in Chr(97)..Chr(102) THEN c - Chr(87)
    ELSE IF c \in Chr(65)..Chr(70) THEN c - Chr(55)
    ELSE -1

\* bytes.hex(): two lower-case digits per byte
Hex(b) == [i \in 1..(2 * Len(b)) |->
              IF i % 2 = 1 THEN HexDigit(b[(i + 1) \div 2] \div 16)
                           ELSE HexDigit(b[i \div 2] % 16)]

NotSpace(c) == c # Chr(32)

\* bytes.fromhex(s): spaces before a byte are skipped, then two hex digits
\* are needed; anything else raises ValueError and an argument that is not
\* a str raises TypeError (the result is None here)
FromHex(s) ==
    LET d == SelectSeq(s, NotSpace)
    IN  IF /\ IsStr(s)
           /\ Len(d) % 2 = 0
           /\ \A i \in 1..Len(d) : HexVal(d[i]) >= 0
           /\ \A i \in 1..Len(s) :
                 s[i] = Chr(32) => Len(SelectSeq(SubSeq(s, 1, i), NotSpace)) % 2 = 0
        THEN [i \in 1..(Len(d) \div 2) |-> 16 * HexVal(d[2 * i - 1]) + HexVal(d[2 * i])]
        ELSE None

\* str.encode() of an ASCII string: each code point becomes one byte
Encode(s) == [i \in 1..Len(s) |-> s[i] - Chr(0)]

-----------------------------------------------------------------------------
(* PyCryptodome primitives *)

\* a hash tree over data[lo..hi] with values below the prime 46337
RECURSIVE FoldRange(_, _, _)
FoldRange(data, lo, hi) ==
    IF lo > hi THEN 1
    ELSE IF lo = hi THEN data[lo] + 2
    ELSE LET mid == (lo + hi) \div 2
         IN  (FoldRange(data, lo, mid) * 257 + FoldRange(data, mid + 1, hi) * 263
                 + (hi - lo)) % 46337

\* a 32-byte digest of data; its first two bytes carry the hash
Digest(tag, data) ==
    LET f == FoldRange(<<tag>> \o data, 1, Len(data) + 1)
    IN  [i \in 1..DigestSize |->
            CASE i = 1 -> f % 256
              [] i = 2 -> f \div 256
              [] OTHER -> (f + 31 * i) % 256]

\* SHA256.new(data).digest(); data that is not bytes raises TypeError
SHA256(data) == Digest(1, data)

\* HMAC.new(key, digestmod=SHA256).update(msg).digest()
HMAC(key, msg) == Digest(2, key \o <<255>> \o msg)

\* the AES block function under a 32-byte key: a keyed permutation of blocks
EncBlock(k, b) ==
    [i \in 1..BlockSize |-> (b[(i % BlockSize) + 1] + k[i] + k[i + BlockSize]) % 256]

DecBlock(k, c) ==
    [j \in 1..BlockSize |->
        LET i == IF j = 1 THEN BlockSize ELSE j - 1
        IN  (c[i] + 512 - k[i] - k[i + BlockSize]) % 256]

Block(x, n) == SubSeq(x, (n - 1) * BlockSize + 1, n * BlockSize)

\* the combination of a block with the previous ciphertext block in CBC mode
\* and its inverse: byte by byte, a group operation (the library's is XOR)
Mix(x, y) == [i \in 1..BlockSize |-> (x[i] + y[i]) % 256]

Unmix(x, y) == [i \in 1..BlockSize |-> (x[i] + 256 - y[i]) % 256]

\* AES.new(key, AES.MODE_CBC, iv).encrypt(data), Len(data) a multiple of 16
RECURSIVE CBCEncFrom(_, _, _, _, _)
CBCEncFrom(k, prev, data, n, acc) ==
    IF n > Len(data) \div BlockSize THEN acc
    ELSE LET c == EncBlock(k, Mix(Block(data, n), prev))
         IN  CBCEncFrom(k, c, data, n + 1, acc \o c)

CBCEncrypt(k, iv, data) == CBCEncFrom(k, iv, data, 1, <<>>)

\* AES.new(key, AES.MODE_CBC, iv).decrypt(data), Len(data) a multiple of 16
RECURSIVE CBCDecFrom(_, _, _, _, _)
CBCDecFrom(k, prev, data, n, acc) ==
    IF n > Len(data) \div BlockSize THEN acc
    ELSE LET c == Block(data, n)
         IN  CBCDecFrom(k, c, data, n + 1, acc \o Unmix(DecBlock(k, c), prev))

CBCDecrypt(k, iv, data) == CBCDecFrom(k, iv, data, 1, <<>>)

\* a faulty variant of pad: data that fills its last block gets no padding
Pad_unless_aligned(data, bs) ==
    IF Len(data) % bs = 0 THEN data
    ELSE data \o Fill(bs - (Len(data) % bs), bs - (Len(data) % bs))

\* Crypto.Util.Padding.pad(data, block_size): PKCS#7
Pad(data, bs) == data \o Fill(bs - (Len(data) % bs), bs - (Len(data) % bs))

\* a faulty variant of unpad: only the last byte of the padding is looked at
UnpadError_last_byte_only(data, bs) ==
    IF Len(data) = 0 THEN "Zero-length input cannot be unpadded"
    ELSE IF Len(data) % bs # 0 THEN "Input data is not padded"
    ELSE LET n == data[Len(data)]
         IN  IF n < 1 \/ n > (IF bs < Len(data) THEN bs ELSE Len(data))
             THEN "Padding is incorrect."
             ELSE ""

\* Crypto.Util.Padding.unpad(data, block_size): the error message when it
\* raises ValueError, "" when it does not
UnpadError(data, bs) ==
    IF Len(data) = 0 THEN "Zero-length input cannot be unpadded"
    ELSE IF Len(data) % bs # 0 THEN "Input data is not padded"
    ELSE LET n == data[Len(data)]
         IN  IF n < 1 \/ n > (IF bs < Len(data) THEN bs ELSE Len(data))
             THEN "Padding is incorrect."
             ELSE IF \E i \in (Len(data) - n + 1)..Len(data) : data[i] # n
             THEN "PKCS#7 padding is incorrect."
             ELSE ""

Unpad(data, bs) == SubSeq(data, 1, Len(data) - data[Len(data)])

-----------------------------------------------------------------------------
(* AuthenticationProtocol *)

\* generate_keypair(), with the two draws of the random source as arguments
generate_keypair(private_key, salt) ==
    [private_key |-> private_key, public_key |-> SHA256(private_key) \o salt]

\* encapsulate(public_key) raises TypeError at ephemeral_key + public_key
\* when public_key is not a bytes object
encapsulate_raises(public_key) == ~IsBytes(public_key)

\* encapsulate(public_key), with the draw of the ephemeral seed as argument
encapsulate(public_key, ephemeral_seed) ==
    LET ephemeral_key == SHA256(ephemeral_seed)
    IN  [ciphertext    |-> ephemeral_seed,
         shared_secret |-> SHA256(ephemeral_key \o public_key)]

\* a faulty variant of decapsulate: the ephemeral key is hashed with the
\* private key
decapsulate_with_private_key(private_key, ciphertext, public_key) ==
    IF ~IsBytes(ciphertext) \/ ~IsBytes(private_key) THEN None
    ELSE LET ephemeral_key == SHA256(ciphertext)
         IN  SHA256(ephemeral_key \o private_key)

\* a faulty variant of decapsulate: the private key goes into the hash too
decapsulate_keyed(private_key, ciphertext, public_key) ==
    IF ~IsBytes(ciphertext) \/ ~IsBytes(public_key) \/ ~IsBytes(private_key) THEN None
    ELSE LET ephemeral_key == SHA256(ciphertext)
         IN  SHA256(ephemeral_key \o public_key \o private_key)

\* decapsulate(private_key, ciphertext, public_key): any exception is caught
\* and None returned
decapsulate(private_key, ciphertext, public_key) ==
    IF ~IsBytes(ciphertext) \/ ~IsBytes(public_key) THEN None
    ELSE LET ephemeral_key == SHA256(ciphertext)
         IN  SHA256(ephemeral_key \o public_key)

\* b"AUTH_TAG"
AUTH_TAG == <<65, 85, 84, 72, 95, 84, 65, 71>>

\* a faulty variant of create_session_key: the tag is derived like the key
create_session_key_no_label(shared_secret, session_id) ==
    [session_key        |-> HMAC(shared_secret, Encode(session_id)),
     authentication_tag |-> HMAC(shared_secret, Encode(session_id))]

create_session_key(shared_secret, session_id) ==
    [session_key        |-> HMAC(shared_secret, Encode(session_id)),
     authentication_tag |-> HMAC(shared_secret, AUTH_TAG \o Encode(session_id))]

\* a faulty variant of create_session_key of auth_protocol_fallback.py: the
\* pair is returned the wrong way round
fallback_create_session_key_swapped(shared_secret, session_id) ==
    [session_key        |-> HMAC(shared_secret, AUTH_TAG \o Encode(session_id)),
     authentication_tag |-> HMAC(shared_secret, Encode(session_id))]

\* create_session_key of auth_protocol_fallback.py
fallback_create_session_key(shared_secret, session_id) ==
    [session_key        |-> HMAC(shared_secret, Encode(session_id)),
     authentication_tag |-> HMAC(shared_secret, AUTH_TAG \o Encode(session_id))]

-----------------------------------------------------------------------------
(* DeviceAuthenticationSession *)

\* str(n) of a natural number
RECURSIVE DecStr(_)
DecStr(n) == IF n < 10 THEN <<Chr(48 + n)>>
             ELSE Append(DecStr(n \div 10), Chr(48 + (n % 10)))

\* f"{device_id}_{gateway_id}_{timestamp}", the clock read as seconds.micros
SessionId(device_id, gateway_id, seconds, micros) ==
    device_id \o <<Chr(95)>> \o gateway_id \o <<Chr(95)>>
        \o DecStr(seconds) \o <<Chr(46)>> \o DecStr(micros)

\* __init__ of blockchain/auth_protocol.py (impl "main")
NewSession(device_id, gateway_id, seconds, micros) ==
    [impl               |-> "main",
     device_id          |-> device_id,
     gateway_id         |-> gateway_id,
     session_id         |-> SessionId(device_id, gateway_id, seconds, micros),
     state              |-> "INITIALIZED",
     device_public_key  |-> None,
     shared_secret      |-> None,
     session_key        |-> None,
     authentication_tag |-> None,
     events             |-> <<>>]

\* __init__ of auth_protocol_fallback.py (impl "fallback"): the same fields
NewFallbackSession(device_id, gateway_id, seconds, micros) ==
    [impl               |-> "fallback",
     device_id          |-> device_id,
     gateway_id         |-> gateway_id,
     session_id         |-> SessionId(device_id, gateway_id, seconds, micros),
     state              |-> "INITIALIZED",
     device_public_key  |-> None,
     shared_secret      |-> None,
     session_key        |-> None,
     authentication_tag |-> None,
     events             |-> <<>>]

\* a faulty variant of _log_event: the entry is put in front
_log_event_in_front(self, event_type) ==
    [self EXCEPT !.events = <<event_type>> \o @]

\* _log_event(event_type); the timestamp of the entry is not modelled
_log_event(self, event_type) == [self EXCEPT !.events = Append(@, event_type)]

\* the results of the operations
ErrorResult(message) == [kind |-> "error", status |-> "ERROR", message |-> message]

\* an exception that leaves the operation
Raised(exception) == [kind |-> "raised", exception |-> exception]

BoolResult(b) == [kind |-> "bool", value |-> b]

NoneResult == [kind |-> "none"]

BytesResult(b) == [kind |-> "bytes", value |-> b]

\* faulty variants of the state check of start_authentication: one that
\* turns away only an authenticated session, one that turns away none
not_initialized_only_authenticated(self) == self.state = "AUTHENTICATED"

not_initialized_never(self) == FALSE

\* the state check of start_authentication
not_initialized(self) == self.state # "INITIALIZED"

\* a faulty variant of start_authentication: the response carries a digest of
\* the commitment in the place of the commitment
start_authentication_hashed_commitment(self, device_public_key, ephemeral_seed) ==
    IF not_initialized(self)
    THEN [self |-> self, ret |-> ErrorResult("Invalid session state")]
    ELSE LET s1 == _log_event([self EXCEPT !.device_public_key = device_public_key,
                                           !.state = "PUBLIC_KEY_RECEIVED"],
                              "PUBLIC_KEY_RECEIVED")
         IN  IF encapsulate_raises(device_public_key)
             THEN [self |-> s1, ret |-> Raised("TypeError")]
             ELSE LET kem == encapsulate(device_public_key, ephemeral_seed)
                      s2  == _log_event([s1 EXCEPT !.shared_secret = kem.shared_secret,
                                                   !.state = "ENCAPSULATED"],
                                        "ENCAPSULATED")
                  IN  [self |-> s2,
                       ret  |-> [kind       |-> "response",
                                 session_id |-> self.session_id,
                                 status     |-> "OK",
                                 ciphertext |-> Hex(kem.ciphertext),
                                 commitment |-> Hex(Prefix(
                                     SHA256(Prefix(kem.shared_secret, COMMITMENT_SIZE)),
                                     COMMITMENT_SIZE))]]

\* start_authentication(device_public_key), with the draw of the ephemeral
\* seed as argument: the session after the call and what the call returns
start_authentication(self, device_public_key, ephemeral_seed) ==
    IF not_initialized(self)
    THEN [self |-> self, ret |-> ErrorResult("Invalid session state")]
    ELSE LET s1 == _log_event([self EXCEPT !.device_public_key = device_public_key,
                                           !.state = "PUBLIC_KEY_RECEIVED"],
                              "PUBLIC_KEY_RECEIVED")
         IN  IF encapsulate_raises(device_public_key)
             THEN [self |-> s1, ret |-> Raised("TypeError")]
             ELSE LET kem == encapsulate(device_public_key, ephemeral_seed)
                      s2  == _log_event([s1 EXCEPT !.shared_secret = kem.shared_secret,
                                                   !.state = "ENCAPSULATED"],
                                        "ENCAPSULATED")
                  IN  [self |-> s2,
                       ret  |-> [kind       |-> "response",
                                 session_id |-> self.session_id,
                                 status     |-> "OK",
                                 ciphertext |-> Hex(kem.ciphertext),
                                 commitment |-> Hex(Prefix(kem.shared_secret,
                                                           COMMITMENT_SIZE))]]

\* a faulty variant of the state check of verify_authentication: only the
\* shared secret is looked at
not_encapsulated_secret_only(self) == self.shared_secret = None

\* the state check of verify_authentication
not_encapsulated(self) == self.state # "ENCAPSULATED" \/ self.shared_secret = None

\* a faulty variant of the comparison: the first 16 bytes of the argument
\* are compared
commitment_mismatch_prefix(self, device_commitment) ==
    Prefix(device_commitment, COMMITMENT_SIZE) # Prefix(self.shared_secret, COMMITMENT_SIZE)

\* a faulty variant of the comparison: only the lengths are compared
commitment_mismatch_length_only(self, device_commitment) ==
    Len(device_commitment) # COMMITMENT_SIZE

\* device_commitment != expected_commitment
commitment_mismatch(self, device_commitment) ==
    device_commitment # Prefix(self.shared_secret, COMMITMENT_SIZE)

\* a faulty variant of authenticate: the derived keys are not stored
authenticate_without_keys(self) ==
    _log_event([self EXCEPT !.state = "AUTHENTICATED"], "AUTHENTICATED")

\* a faulty variant of authenticate: key and tag are stored the wrong way round
authenticate_swapped(self) ==
    LET keys == create_session_key(self.shared_secret, self.session_id)
    IN  _log_event([self EXCEPT !.session_key = keys.authentication_tag,
                                !.authentication_tag = keys.session_key,
                                !.state = "AUTHENTICATED"],
                   "AUTHENTICATED")

\* the session keys are derived and stored, the state becomes AUTHENTICATED
authenticate(self) ==
    LET keys == create_session_key(self.shared_secret, self.session_id)
    IN  _log_event([self EXCEPT !.session_key = keys.session_key,
                                !.authentication_tag = keys.authentication_tag,
                                !.state = "AUTHENTICATED"],
                   "AUTHENTICATED")

\* a faulty variant of verify_authentication: a call in the wrong state is
\* logged as a failed authentication
verify_authentication_logging_rejections(self, device_commitment) ==
    IF not_encapsulated(self) \/ commitment_mismatch(self, device_commitment)
    THEN [self |-> _log_event(self, "AUTHENTICATION_FAILED"), ret |-> BoolResult(FALSE)]
    ELSE [self |-> authenticate(self), ret |-> BoolResult(TRUE)]

\* a faulty variant of verify_authentication: a wrong commitment locks the
\* session
verify_authentication_locking(self, device_commitment) ==
    IF not_encapsulated(self)
    THEN [self |-> self, ret |-> BoolResult(FALSE)]
    ELSE IF commitment_mismatch(self, device_commitment)
    THEN [self |-> _log_event([self EXCEPT !.state = "INITIALIZED",
                                           !.shared_secret = None],
                              "AUTHENTICATION_FAILED"),
          ret  |-> BoolResult(FALSE)]
    ELSE [self |-> authenticate(self), ret |-> BoolResult(TRUE)]

\* verify_authentication(device_commitment)
verify_authentication(self, device_commitment) ==
    IF not_encapsulated(self)
    THEN [self |-> self, ret |-> BoolResult(FALSE)]
    ELSE IF commitment_mismatch(self, device_commitment)
    THEN [self |-> _log_event(self, "AUTHENTICATION_FAILED"), ret |-> BoolResult(FALSE)]
    ELSE [self |-> authenticate(self), ret |-> BoolResult(TRUE)]

\* a faulty variant of the state check of encrypt_message and
\* decrypt_message: only a session that has not started is turned away
not_authenticated_only_initialized(self) == self.state = "INITIALIZED"

\* the state check of encrypt_message and decrypt_message, in both classes
not_authenticated(self) == self.state # "AUTHENTICATED" \/ self.session_key = None

\* AES.new(key, AES.MODE_CBC, iv) raises for a key that is not 16, 24 or 32
\* bytes
AESKeyError(key) == ~IsBytes(key) \/ Len(key) \notin {16, 24, 32}

\* a faulty variant of the body of encrypt_message: the MAC is computed over
\* the padded plaintext
EncryptBody_mac_over_plaintext(session_key, plaintext, iv) ==
    IF AESKeyError(session_key) THEN Raised("ValueError")
    ELSE IF ~IsBytes(plaintext) THEN Raised("TypeError")
    ELSE LET padded_plaintext == Pad(plaintext, BlockSize)
             ciphertext == CBCEncrypt(session_key, iv, padded_plaintext)
             hmac_tag   == HMAC(session_key, padded_plaintext)
         IN  [kind       |-> "message",
              iv         |-> Hex(iv),
              ciphertext |-> Hex(ciphertext),
              hmac       |-> Hex(hmac_tag)]

\* the body of encrypt_message after the state check, the same in both
\* classes: the exception when AES.new() or pad() raises, else the message
EncryptBody(session_key, plaintext, iv) ==
    IF AESKeyError(session_key) THEN Raised("ValueError")
    ELSE IF ~IsBytes(plaintext) THEN Raised("TypeError")
    ELSE LET padded_plaintext == Pad(plaintext, BlockSize)
             ciphertext == CBCEncrypt(session_key, iv, padded_plaintext)
             hmac_tag   == HMAC(session_key, ciphertext)
         IN  [kind       |-> "message",
              iv         |-> Hex(iv),
              ciphertext |-> Hex(ciphertext),
              hmac       |-> Hex(hmac_tag)]

\* a faulty variant of encrypt_message: the IV is taken from the session key
encrypt_message_iv_from_key(self, plaintext, iv) ==
    IF not_authenticated(self)
    THEN [self |-> self, ret |-> ErrorResult("Session not authenticated")]
    ELSE [self |-> self,
          ret  |-> EncryptBody(self.session_key, plaintext,
                               Prefix(self.session_key, IVSize))]

\* a faulty variant of encrypt_message: a message that has been encrypted is
\* recorded in the log
encrypt_message_logged(self, plaintext, iv) ==
    IF not_authenticated(self)
    THEN [self |-> self, ret |-> ErrorResult("Session not authenticated")]
    ELSE LET r == EncryptBody(self.session_key, plaintext, iv)
         IN  [self |-> IF r.kind = "message" THEN _log_event(self, "MESSAGE_ENCRYPTED")
                       ELSE self,
              ret  |-> r]

\* encrypt_message(plaintext) of blockchain/auth_protocol.py, with the draw
\* of the IV as argument: an exception leaves the method
encrypt_message(self, plaintext, iv) ==
    IF not_authenticated(self)
    THEN [self |-> self, ret |-> ErrorResult("Session not authenticated")]
    ELSE [self |-> self, ret |-> EncryptBody(self.session_key, plaintext, iv)]

\* a faulty variant of encrypt_message of auth_protocol_fallback.py: the
\* state is not checked
fallback_encrypt_message_unchecked(self, plaintext, iv) ==
    LET r == EncryptBody(self.session_key, plaintext, iv)
    IN  [self |-> self,
         ret  |-> IF r.kind = "raised" THEN ErrorResult(r.exception) ELSE r]

\* encrypt_message(plaintext) of auth_protocol_fallback.py: an exception is
\* turned into an error result
fallback_encrypt_message(self, plaintext, iv) ==
    IF not_authenticated(self)
    THEN [self |-> self, ret |-> ErrorResult("Session not authenticated")]
    ELSE LET r == EncryptBody(self.session_key, plaintext, iv)
         IN  [self |-> self,
              ret  |-> IF r.kind = "raised" THEN ErrorResult(r.exception) ELSE r]

\* a faulty variant of the MAC comparison: only the lengths are compared
hmac_mismatch_length_only(session_key, ciphertext, hmac_received) ==
    Len(hmac_received) # DigestSize

\* hmac_received != hmac_expected, the MAC recomputed over the ciphertext
hmac_mismatch(session_key, ciphertext, hmac_received) ==
    hmac_received # HMAC(session_key, ciphertext)

\* a faulty variant of the try block of decrypt_message: the MAC is
\* recomputed over the iv and the ciphertext
DecryptBody_mac_over_iv(session_key, iv_hex, ciphertext_hex, hmac_hex) ==
    LET iv == FromHex(iv_hex)
        ciphertext == FromHex(ciphertext_hex)
        hmac_received == FromHex(hmac_hex)
        padded_plaintext == CBCDecrypt(session_key, iv, ciphertext)
    IN  IF iv = None \/ ciphertext = None \/ hmac_received = None
        THEN [kind |-> "exception",
              message |-> "non-hexadecimal number found in fromhex() arg"]
        ELSE IF hmac_received # HMAC(session_key, iv \o ciphertext)
        THEN [kind |-> "hmac_mismatch"]
        ELSE IF UnpadError(padded_plaintext, BlockSize) # ""
        THEN [kind |-> "exception", message |-> UnpadError(padded_plaintext, BlockSize)]
        ELSE [kind |-> "plaintext", value |-> Unpad(padded_plaintext, BlockSize)]

\* the try block of decrypt_message, the same in both classes: the plaintext,
\* the HMAC mismatch, or the message of the exception raised
DecryptBody(session_key, iv_hex, ciphertext_hex, hmac_hex) ==
    LET iv == FromHex(iv_hex)
        ciphertext == FromHex(ciphertext_hex)
        hmac_received == FromHex(hmac_hex)
        padded_plaintext == CBCDecrypt(session_key, iv, ciphertext)
    IN  IF iv = None \/ ciphertext = None \/ hmac_received = None
        THEN [kind |-> "exception",
              message |-> "non-hexadecimal number found in fromhex() arg"]
        ELSE IF ~IsBytes(session_key)
        THEN [kind |-> "exception", message |-> "key must be bytes"]
        ELSE IF hmac_mismatch(session_key, ciphertext, hmac_received)
        THEN [kind |-> "hmac_mismatch"]
        ELSE IF AESKeyError(session_key)
        THEN [kind |-> "exception", message |-> "Incorrect AES key length"]
        ELSE IF Len(iv) # BlockSize
        THEN [kind |-> "exception",
              message |-> "Incorrect IV length (it must be 16 bytes long)"]
        ELSE IF Len(ciphertext) % BlockSize # 0
        THEN [kind |-> "exception",
              message |-> "Data must be padded to 16 byte boundary in CBC mode"]
        ELSE IF UnpadError(padded_plaintext, BlockSize) # ""
        THEN [kind |-> "exception", message |-> UnpadError(padded_plaintext, BlockSize)]
        ELSE [kind |-> "plaintext", value |-> Unpad(padded_plaintext, BlockSize)]

\* a faulty variant of decrypt_message: an exception is swallowed unlogged
decrypt_message_silent_errors(self, iv_hex, ciphertext_hex, hmac_hex) ==
    IF not_authenticated(self)
    THEN [self |-> self, ret |-> NoneResult]
    ELSE LET r == DecryptBody(self.session_key, iv_hex, ciphertext_hex, hmac_hex)
         IN  CASE r.kind = "hmac_mismatch" ->
                    [self |-> _log_event(self, "DECRYPTION_HMAC_FAILED"),
                     ret  |-> NoneResult]
               [] r.kind = "exception" -> [self |-> self, ret |-> NoneResult]
               [] r.kind = "plaintext" ->
                    [self |-> _log_event(self, "MESSAGE_DECRYPTED"),
                     ret  |-> BytesResult(r.value)]

\* a faulty variant of decrypt_message: a session accepts one message only
decrypt_message_single_use(self, iv_hex, ciphertext_hex, hmac_hex) ==
    IF not_authenticated(self)
    THEN [self |-> self, ret |-> NoneResult]
    ELSE IF \E i \in 1..Len(self.events) : self.events[i] = "MESSAGE_DECRYPTED"
    THEN [self |-> _log_event(self, "DECRYPTION_REPLAY"), ret |-> NoneResult]
    ELSE LET r == DecryptBody(self.session_key, iv_hex, ciphertext_hex, hmac_hex)
         IN  CASE r.kind = "hmac_mismatch" ->
                    [self |-> _log_event(self, "DECRYPTION_HMAC_FAILED"),
                     ret  |-> NoneResult]
               [] r.kind = "exception" ->
                    [self |-> _log_event(self, "DECRYPTION_ERROR: " \o r.message),
                     ret  |-> NoneResult]
               [] r.kind = "plaintext" ->
                    [self |-> _log_event(self, "MESSAGE_DECRYPTED"),
                     ret  |-> BytesResult(r.value)]

\* decrypt_message(iv_hex, ciphertext_hex, hmac_hex) of
\* blockchain/auth_protocol.py: every outcome of the try block is logged
decrypt_message(self, iv_hex, ciphertext_hex, hmac_hex) ==
    IF not_authenticated(self)
    THEN [self |-> self, ret |-> NoneResult]
    ELSE LET r == DecryptBody(self.session_key, iv_hex, ciphertext_hex, hmac_hex)
         IN  CASE r.kind = "hmac_mismatch" ->
                    [self |-> _log_event(self, "DECRYPTION_HMAC_FAILED"),
                     ret  |-> NoneResult]
               [] r.kind = "exception" ->
                    [self |-> _log_event(self, "DECRYPTION_ERROR: " \o r.message),
                     ret  |-> NoneResult]
               [] r.kind = "plaintext" ->
                    [self |-> _log_event(self, "MESSAGE_DECRYPTED"),
                     ret  |-> BytesResult(r.value)]

\* decrypt_message(iv_hex, ciphertext_hex, hmac_hex) of
\* auth_protocol_fallback.py: nothing is logged
fallback_decrypt_message(self, iv_hex, ciphertext_hex, hmac_hex) ==
    IF not_authenticated(self)
    THEN [self |-> self, ret |-> NoneResult]
    ELSE LET r == DecryptBody(self.session_key, iv_hex, ciphertext_hex, hmac_hex)
         IN  [self |-> self,
              ret  |-> IF r.kind = "plaintext" THEN BytesResult(r.value) ELSE NoneResult]

\* get_session_info()
get_session_info(self) ==
    [session_id    |-> self.session_id,
     device_id     |-> self.device_id,
     gateway_id    |-> self.gateway_id,
     state         |-> self.state,
     authenticated |-> self.state = "AUTHENTICATED",
     event_count   |-> Len(self.events)]

-----------------------------------------------------------------------------
(* The callers: the arguments the operations are called with *)

\* the key pair of the device, as generate_keypair() makes it
DeviceKeypairs == { generate_keypair(Fill(KEY_SIZE, 7), Fill(KEY_SIZE, 9)) }

\* device_public_key: a device's key, the hex text of a key (a str) and None
PublicKeyArgs ==
    { kp.public_key : kp \in DeviceKeypairs }
        \cup { Hex(kp.public_key) : kp \in DeviceKeypairs }
        \cup { None }

\* device_commitment: the first 16 bytes of the shared secret, the same with
\* one byte changed, the whole secret, the hex text of the commitment (a str)
\* and None
CommitmentArgs(self) ==
    LET secret == IF self.shared_secret = None THEN Fill(DigestSize, 0)
                  ELSE self.shared_secret
        c == Prefix(secret, COMMITMENT_SIZE)
    IN  { c, [c EXCEPT ![1] = (@ + 1) % 256], secret, Hex(c), None }

\* the lengths around the block boundaries: 0, 1, 15, 16, 17, ...
PlaintextLengths ==
    { n \in 0..(MaxBlocks * BlockSize + 1) :
        (n % BlockSize) \in {0, 1, BlockSize - 1} }

\* plaintext: bytes of these lengths, and a str
PlaintextArgs == { Fill(n, 1) : n \in PlaintextLengths } \cup { Hex(<<1>>) }

\* no message has been produced yet
NoMessage == [kind |-> "none"]

OtherDigit(c) == IF c = Chr(48) THEN Chr(49) ELSE Chr(48)

\* the message the caller holds, changed in one place
Tampered(msg, how) ==
    CASE how = "unmodified" -> msg
      [] how = "ciphertext" -> [msg EXCEPT !.ciphertext[2] = OtherDigit(@)]
      [] how = "hmac"       -> [msg EXCEPT !.hmac[2] = OtherDigit(@)]
      [] how = "iv"         -> [msg EXCEPT !.iv[2] = OtherDigit(@)]
      [] how = "nonhex"     -> [msg EXCEPT !.iv[1] = Chr(122)]

Tamperings == {"unmodified", "ciphertext", "hmac", "iv", "nonhex"}

\* a message that no session has produced
MadeUpMessage ==
    [kind |-> "message", iv |-> Hex(Fill(IVSize, 0)),
     ciphertext |-> Hex(Fill(BlockSize, 0)), hmac |-> Hex(Fill(DigestSize, 0))]

\* (iv_hex, ciphertext_hex, hmac_hex) for a session: the message in flight,
\* when this session produced it, as it is or changed; otherwise a made-up one
MessageArgs(h) ==
    IF sent # NoMessage /\ sent.h = h
    THEN { Tampered(sent.msg, how) : how \in Tamperings }
    ELSE { MadeUpMessage }

-----------------------------------------------------------------------------
(* The state machine *)

\* one session of each class
Handles == {"main", "fallback"}

\* "D1" and "G1"
DEVICE_001 == <<Chr(68), Chr(49)>>
GATEWAY_001 == <<Chr(71), Chr(49)>>

\* the device side of a handshake, when no device takes part
NoDevice == [step |-> "none"]

\* the gateway object, when none has been made
NoGateway == [kind |-> "none"]

\* the surroundings of the sessions, which the session operations leave alone:
\* dev is the device side of a handshake, rng the number of draws made from a
\* random source that never repeats, ivs[h] the plaintext and the iv of each
\* message that encrypt_message has returned on session h under such a
\* source, in order, clock the reading of the clock in microseconds, alone[h]
\* the object h as its own calls make it when no other object is there
\* held the message a caller has kept, with the number of times
\* decrypt_message has accepted it, and gw the gateway object of
\* gateway/__init__.py
Surroundings == <<dev, rng, ivs, clock, alone, held, gw>>

InitSurroundings ==
    /\ dev = NoDevice
    /\ rng = 0
    /\ ivs = [h \in Handles |-> <<>>]
    /\ clock = 0
    /\ alone = [h \in Handles |-> None]
    /\ held = NoMessage
    /\ gw = NoGateway

\* sess[h] is the session object h.  sent is the message in flight: what the
\* last encrypt_message returned, with its plaintext, which the caller hands
\* to decrypt_message (once or repeatedly) before it calls anything else.
\* last is the last call: the operation, the session it was called on, its
\* argument, the session before the call and what the call returned
Init ==
    /\ InitSurroundings
    /\ sess = [h \in Handles |->
                  IF h = "main" THEN NewSession(DEVICE_001, GATEWAY_001, 0, 0)
                  ELSE NewFallbackSession(DEVICE_001, GATEWAY_001, 0, 0)]
    /\ sent = NoMessage
    /\ last = [op |-> "__init__", h |-> "main", arg |-> <<>>,
               pre |-> NewSession(DEVICE_001, GATEWAY_001, 0, 0),
               ret |-> NoneResult]

\* a faulty variant of a method call: the objects share one events list
Call_shared_events(h, op, arg, r) ==
    /\ Len(r.self.events) <= MaxEvents
    /\ sess' = [g \in Handles |->
                   IF g = h THEN r.self
                   ELSE [sess[g] EXCEPT !.events = r.self.events]]
    /\ last' = [op |-> op, h |-> h, arg |-> arg, pre |-> sess[h], ret |-> r.ret]

\* a method called on object h: the attributes it assigns through self, the
\* events list that __init__ made for this object included, are those of h
Call(h, op, arg, r) ==
    /\ Len(r.self.events) <= MaxEvents
    /\ sess' = [sess EXCEPT ![h] = r.self]
    /\ last' = [op |-> op, h |-> h, arg |-> arg, pre |-> sess[h], ret |-> r.ret]

\* the ephemeral seed is drawn when encapsulate() is reached
SeedDraws(self, pk) ==
    IF ~not_initialized(self) /\ ~encapsulate_raises(pk)
    THEN RandomBytes(EPHEMERAL_SIZE) ELSE { None }

StartAuthentication(h) ==
    /\ sess[h].impl = "main"
    /\ \E pk \in PublicKeyArgs :
          \E seed \in SeedDraws(sess[h], pk) :
              Call(h, "start_authentication", pk, start_authentication(sess[h], pk, seed))
    /\ sent' = NoMessage
    /\ UNCHANGED Surroundings

VerifyAuthentication(h) ==
    /\ sess[h].impl = "main"
    /\ \E c \in CommitmentArgs(sess[h]) :
          Call(h, "verify_authentication", c, verify_authentication(sess[h], c))
    /\ sent' = NoMessage
    /\ UNCHANGED Surroundings

\* the IV is drawn when the session is authenticated
IVDraws(self) ==
    IF ~not_authenticated(self)
    THEN RandomBytes(IVSize) ELSE { None }

EncryptMessage(h) ==
    \E p \in PlaintextArgs, iv \in IVDraws(sess[h]) :
        LET r == IF sess[h].impl = "main" THEN encrypt_message(sess[h], p, iv)
                 ELSE fallback_encrypt_message(sess[h], p, iv)
        IN  /\ Call(h, "encrypt_message", p, r)
            /\ sent' = IF r.ret.kind = "message"
                       THEN [kind |-> "message", h |-> h, plaintext |-> p, msg |-> r.ret]
                       ELSE NoMessage
            /\ UNCHANGED Surroundings

DecryptMessage(h) ==
    /\ \E m \in MessageArgs(h) :
          Call(h, "decrypt_message", <<m.iv, m.ciphertext, m.hmac>>,
               IF sess[h].impl = "main"
               THEN decrypt_message(sess[h], m.iv, m.ciphertext, m.hmac)
               ELSE fallback_decrypt_message(sess[h], m.iv, m.ciphertext, m.hmac))
    /\ UNCHANGED sent
    /\ UNCHANGED Surroundings

Next ==
    \E h \in Handles :
        \/ StartAuthentication(h)
        \/ VerifyAuthentication(h)
        \/ EncryptMessage(h)
        \/ DecryptMessage(h)

Spec == Init /\ [][Next]_vars

-----------------------------------------------------------------------------
(* The session of auth_protocol_fallback.py in use *)

\* The class of auth_protocol_fallback.py has no method that authenticates:
\* its user assigns the attributes of the object.  The session with a shared
\* secret, the keys that create_session_key derives from it, and the state
\* AUTHENTICATED assigned
AssignedFallbackSession ==
    LET new    == NewFallbackSession(DEVICE_001, GATEWAY_001, 0, 0)
        secret == Fill(KEY_SIZE, 3)
        keys   == fallback_create_session_key(secret, new.session_id)
    IN  [new EXCEPT !.state = "AUTHENTICATED",
                    !.shared_secret = secret,
                    !.session_key = keys.session_key,
                    !.authentication_tag = keys.authentication_tag]

InitAssigned ==
    /\ InitSurroundings
    /\ sess = [h \in Handles |->
                  IF h = "main" THEN NewSession(DEVICE_001, GATEWAY_001, 0, 0)
                  ELSE AssignedFallbackSession]
    /\ sent = NoMessage
    /\ last = [op |-> "__init__", h |-> "fallback", arg |-> <<>>,
               pre |-> AssignedFallbackSession, ret |-> NoneResult]

\* The two objects share no field and no operation of one reads the other,
\* so a call on one leaves a call on the other what it was, whichever comes
\* first: the calls on the session of auth_protocol_fallback.py are taken
\* first, those on the session of blockchain/auth_protocol.py after them
NextAssigned ==
    \E h \in Handles :
        /\ h = "fallback" => last.h = "fallback"
        /\ \/ StartAuthentication(h)
           \/ VerifyAuthentication(h)
           \/ EncryptMessage(h)
           \/ DecryptMessage(h)

\* the operations of both classes, the session of auth_protocol_fallback.py
\* being authenticated
SpecAssigned == InitAssigned /\ [][NextAssigned]_vars

-----------------------------------------------------------------------------
(* The sessions with a random source that never repeats a 16-byte draw *)

\* the n-th draw of k bytes from such a source
FreshBytes(n, k) == Fill(k, n)

\* the plaintexts encrypted under it: the empty one and one of one block
FreshPlaintextArgs == { <<>>, Fill(BlockSize, 1) }

\* encrypt_message(plaintext), the IV being the next draw of the source
FreshEncryptMessage(h) ==
    /\ rng < MaxDraws
    /\ \E p \in FreshPlaintextArgs :
          LET drawn == ~not_authenticated(sess[h])
              iv    == IF drawn THEN FreshBytes(rng + 1, IVSize) ELSE None
              r     == IF sess[h].impl = "main" THEN encrypt_message(sess[h], p, iv)
                       ELSE fallback_encrypt_message(sess[h], p, iv)
          IN  /\ Call(h, "encrypt_message", p, r)
              /\ rng' = IF drawn THEN rng + 1 ELSE rng
              /\ IF r.ret.kind = "message"
                 THEN /\ sent' = [kind |-> "message", h |-> h, plaintext |-> p,
                                  msg |-> r.ret]
                      /\ ivs' = [ivs EXCEPT
                                   ![h] = Append(@, [plaintext |-> p, iv |-> r.ret.iv])]
                 ELSE /\ sent' = NoMessage
                      /\ UNCHANGED ivs
    /\ UNCHANGED <<dev, clock, alone, held, gw>>

NextFresh ==
    \E h \in Handles :
        \/ StartAuthentication(h)
        \/ VerifyAuthentication(h)
        \/ FreshEncryptMessage(h)

SpecFresh == Init /\ [][NextFresh]_vars

-----------------------------------------------------------------------------
(* The construction of sessions *)

\* device ids "D1", "D", "D_1" and gateway ids "G1", "1_G1"
DeviceIdArgs == { DEVICE_001, <<Chr(68)>>, <<Chr(68), Chr(95), Chr(49)>> }

GatewayIdArgs == { GATEWAY_001, <<Chr(49), Chr(95), Chr(71), Chr(49)>> }

\* two sessions, for different devices, made at the same reading of the clock
InitCreate ==
    /\ InitSurroundings
    /\ sess = [h \in Handles |->
                  IF h = "main" THEN NewSession(DEVICE_001, GATEWAY_001, 0, 0)
                  ELSE NewFallbackSession(<<Chr(68)>>, GATEWAY_001, 0, 0)]
    /\ sent = NoMessage
    /\ last = [op |-> "__init__", h |-> "main", arg |-> <<>>,
               pre |-> NewSession(DEVICE_001, GATEWAY_001, 0, 0),
               ret |-> NoneResult]

\* time passes: datetime.now() returns a later reading
Tick ==
    /\ clock < MaxClock
    /\ clock' = clock + 1
    /\ UNCHANGED <<sess, sent, last, dev, rng, ivs, alone, held, gw>>

\* DeviceAuthenticationSession(device_id, gateway_id): a new object takes the
\* place of h, the other object lives on
CreateSession(h) ==
    /\ \E device_id \in DeviceIdArgs, gateway_id \in GatewayIdArgs :
          LET new == IF h = "main" THEN NewSession(device_id, gateway_id, 0, clock)
                     ELSE NewFallbackSession(device_id, gateway_id, 0, clock)
          IN  /\ sess' = [sess EXCEPT ![h] = new]
              /\ last' = [op |-> "__init__", h |-> h, arg |-> <<device_id, gateway_id>>,
                          pre |-> new, ret |-> NoneResult]
    /\ sent' = NoMessage
    /\ UNCHANGED Surroundings

NextCreate == Tick \/ \E h \in Handles : CreateSession(h)

SpecCreate == InitCreate /\ [][NextCreate]_vars

-----------------------------------------------------------------------------
(* The handshake between a device and the gateway's session, as __main__ of
   blockchain/auth_protocol.py runs it *)

\* the public keys start_authentication is given: the device's, and a bytes
\* object that no generate_keypair() made
HandshakePublicKeys(device) == { device.public_key, <<>> }

\* 1. the device generates its key pair
InitHandshake ==
    /\ rng = 0
    /\ ivs = [h \in Handles |-> <<>>]
    /\ clock = 0
    /\ alone = [h \in Handles |-> None]
    /\ held = NoMessage
    /\ gw = NoGateway
    /\ \E private_key \in RandomBytes(KEY_SIZE), salt \in RandomBytes(KEY_SIZE) :
          dev = [step          |-> "keypair",
                 private_key   |-> generate_keypair(private_key, salt).private_key,
                 public_key    |-> generate_keypair(private_key, salt).public_key,
                 sent_key      |-> None,
                 response      |-> NoneResult,
                 shared_secret |-> None,
                 session_key   |-> None,
                 received      |-> NoneResult]
    /\ sess = [h \in Handles |->
                  IF h = "main" THEN NewSession(DEVICE_001, GATEWAY_001, 0, 0)
                  ELSE NewFallbackSession(DEVICE_001, GATEWAY_001, 0, 0)]
    /\ sent = NoMessage
    /\ last = [op |-> "__init__", h |-> "main", arg |-> <<>>,
               pre |-> NewSession(DEVICE_001, GATEWAY_001, 0, 0),
               ret |-> NoneResult]

\* 3. the public key goes to the gateway: session.start_authentication
HandshakeStart ==
    /\ dev.step = "keypair"
    /\ \E pk \in HandshakePublicKeys(dev), seed \in RandomBytes(EPHEMERAL_SIZE) :
          LET r == start_authentication(sess["main"], pk, seed)
          IN  /\ Call("main", "start_authentication", pk, r)
              /\ dev' = [dev EXCEPT !.step = "started", !.sent_key = pk,
                                    !.response = r.ret]
    /\ UNCHANGED <<sent, rng, ivs, clock, alone, held, gw>>

\* 4. the device decapsulates the ciphertext of the response
HandshakeDecapsulate ==
    /\ dev.step = "started"
    /\ dev.response.kind = "response"
    /\ dev' = [dev EXCEPT
                 !.step = "decapsulated",
                 !.shared_secret = decapsulate(dev.private_key,
                                               FromHex(dev.response.ciphertext),
                                               dev.sent_key)]
    /\ UNCHANGED <<sess, sent, last, rng, ivs, clock, alone, held, gw>>

\* 5. the commitment goes to the gateway: session.verify_authentication
HandshakeVerify ==
    /\ dev.step = "decapsulated"
    /\ LET commitment == Prefix(dev.shared_secret, COMMITMENT_SIZE)
       IN  Call("main", "verify_authentication", commitment,
                verify_authentication(sess["main"], commitment))
    /\ dev' = [dev EXCEPT !.step = "verified"]
    /\ UNCHANGED <<sent, rng, ivs, clock, alone, held, gw>>

\* the device, told that the gateway accepted, derives the session key from
\* its own secret and the session_id of the response
HandshakeDerive ==
    /\ dev.step = "verified"
    /\ last.ret = BoolResult(TRUE)
    /\ dev' = [dev EXCEPT
                 !.step = "derived",
                 !.session_key = create_session_key(dev.shared_secret,
                                                    dev.response.session_id).session_key]
    /\ UNCHANGED <<sess, sent, last, rng, ivs, clock, alone, held, gw>>

\* 6. the gateway encrypts a message: session.encrypt_message
HandshakeEncrypt ==
    /\ dev.step = "derived"
    /\ \E p \in PlaintextArgs, iv \in IVDraws(sess["main"]) :
          LET r == encrypt_message(sess["main"], p, iv)
          IN  /\ Call("main", "encrypt_message", p, r)
              /\ sent' = IF r.ret.kind = "message"
                         THEN [kind |-> "message", h |-> "main", plaintext |-> p,
                               msg |-> r.ret]
                         ELSE NoMessage
    /\ dev' = [dev EXCEPT !.step = "encrypted"]
    /\ UNCHANGED <<rng, ivs, clock, alone, held, gw>>

\* 7. the device decrypts the message with the key it derived
HandshakeDecrypt ==
    /\ dev.step = "encrypted"
    /\ sent # NoMessage
    /\ LET r == DecryptBody(dev.session_key, sent.msg.iv, sent.msg.ciphertext,
                            sent.msg.hmac)
       IN  dev' = [dev EXCEPT
                     !.step = "decrypted",
                     !.received = IF r.kind = "plaintext" THEN BytesResult(r.value)
                                  ELSE NoneResult]
    /\ UNCHANGED <<sess, sent, last, rng, ivs, clock, alone, held, gw>>

NextHandshake ==
    \/ HandshakeStart
    \/ HandshakeDecapsulate
    \/ HandshakeVerify
    \/ HandshakeDerive
    \/ HandshakeEncrypt
    \/ HandshakeDecrypt

SpecHandshake == InitHandshake /\ [][NextHandshake]_vars

-----------------------------------------------------------------------------
(* The handshake when the gateway holds another public key than the device *)

\* the public keys the gateway may have been given for the device: every key
\* that generate_keypair() can make, the device's among them, and the empty
\* bytes
MismatchPublicKeys ==
    { generate_keypair(private_key, salt).public_key :
        private_key \in RandomBytes(KEY_SIZE), salt \in RandomBytes(KEY_SIZE) }
        \cup { <<>> }

\* session.start_authentication with the key the gateway holds
MismatchStart ==
    /\ dev.step = "keypair"
    /\ \E pk \in MismatchPublicKeys, seed \in RandomBytes(EPHEMERAL_SIZE) :
          LET r == start_authentication(sess["main"], pk, seed)
          IN  /\ Call("main", "start_authentication", pk, r)
              /\ dev' = [dev EXCEPT !.step = "started", !.sent_key = pk,
                                    !.response = r.ret]
    /\ UNCHANGED <<sent, rng, ivs, clock, alone, held, gw>>

\* the device decapsulates the ciphertext of the response with its own
\* public key
MismatchDecapsulate ==
    /\ dev.step = "started"
    /\ dev.response.kind = "response"
    /\ dev' = [dev EXCEPT
                 !.step = "decapsulated",
                 !.shared_secret = decapsulate(dev.private_key,
                                               FromHex(dev.response.ciphertext),
                                               dev.public_key)]
    /\ UNCHANGED <<sess, sent, last, rng, ivs, clock, alone, held, gw>>

NextMismatch ==
    \/ MismatchStart
    \/ MismatchDecapsulate
    \/ HandshakeVerify

SpecMismatch == InitHandshake /\ [][NextMismatch]_vars

-----------------------------------------------------------------------------
(* The response of start_authentication handed back to the session *)

\* what a caller that holds only the response can pass as device_commitment:
\* the 'commitment' field as it is, a str, and the bytes it is the hex text of
ReplayArgs(response) == { response.commitment, FromHex(response.commitment) }

\* verify_authentication called right after start_authentication with the
\* commitment of its response; no decapsulate is called and no key is held
ReplayVerify(h) ==
    /\ last.op = "start_authentication"
    /\ last.h = h
    /\ last.ret.kind = "response"
    /\ \E c \in ReplayArgs(last.ret) :
          Call(h, "verify_authentication", c, verify_authentication(sess[h], c))
    /\ sent' = NoMessage
    /\ UNCHANGED Surroundings

NextReplay ==
    \E h \in Handles :
        \/ StartAuthentication(h)
        \/ ReplayVerify(h)
        \/ EncryptMessage(h)
        \/ DecryptMessage(h)

SpecReplay == Init /\ [][NextReplay]_vars

-----------------------------------------------------------------------------
(* Two sessions of blockchain/auth_protocol.py in use at once *)

\* two objects of the class, for the devices "D1" and "D"
PairSessions ==
    [h \in Handles |->
        IF h = "main" THEN NewSession(DEVICE_001, GATEWAY_001, 0, 0)
        ELSE NewSession(<<Chr(68)>>, GATEWAY_001, 0, 0)]

InitPair ==
    /\ dev = NoDevice
    /\ rng = 0
    /\ ivs = [h \in Handles |-> <<>>]
    /\ clock = 0
    /\ alone = PairSessions
    /\ held = NoMessage
    /\ gw = NoGateway
    /\ sess = PairSessions
    /\ sent = NoMessage
    /\ last = [op |-> "__init__", h |-> "main", arg |-> <<>>,
               pre |-> PairSessions["main"], ret |-> NoneResult]

\* a method called on object h with result r, and the same call, with
\* result a, made on the object that only the calls on h have touched; what
\* encrypt_message returns is not kept, decrypt_message is given a message
\* that no session produced
PairCall(h, op, arg, r, a) ==
    /\ Call(h, op, arg, r)
    /\ alone' = [alone EXCEPT ![h] = a.self]
    /\ UNCHANGED <<sent, dev, rng, ivs, clock, held, gw>>

\* device_commitment: the first 16 bytes of the shared secret, and the same
\* with one byte changed
PairCommitments(self) ==
    LET secret == IF self.shared_secret = None THEN Fill(DigestSize, 0)
                  ELSE self.shared_secret
        c == Prefix(secret, COMMITMENT_SIZE)
    IN  { c, [c EXCEPT ![1] = (@ + 1) % 256] }

PairStart(h) ==
    \E kp \in DeviceKeypairs, seed \in RandomBytes(EPHEMERAL_SIZE) :
        PairCall(h, "start_authentication", kp.public_key,
                 start_authentication(sess[h], kp.public_key, seed),
                 start_authentication(alone[h], kp.public_key, seed))

PairVerify(h) ==
    \E c \in PairCommitments(sess[h]) :
        PairCall(h, "verify_authentication", c,
                 verify_authentication(sess[h], c),
                 verify_authentication(alone[h], c))

PairEncrypt(h) ==
    \E iv \in IVDraws(sess[h]) :
        PairCall(h, "encrypt_message", Fill(BlockSize, 1),
                 encrypt_message(sess[h], Fill(BlockSize, 1), iv),
                 encrypt_message(alone[h], Fill(BlockSize, 1), iv))

PairDecrypt(h) ==
    LET m == MadeUpMessage
    IN  PairCall(h, "decrypt_message", <<m.iv, m.ciphertext, m.hmac>>,
                 decrypt_message(sess[h], m.iv, m.ciphertext, m.hmac),
                 decrypt_message(alone[h], m.iv, m.ciphertext, m.hmac))

\* the calls on the two objects, in any order
NextPair ==
    \E h \in Handles :
        \/ PairStart(h)
        \/ PairVerify(h)
        \/ PairEncrypt(h)
        \/ PairDecrypt(h)

SpecPair == InitPair /\ [][NextPair]_vars

-----------------------------------------------------------------------------
(* Properties of the session *)

\* the session the last call was made on, after the call
Self == sess[last.h]

\* the order of the states
Rank(state) ==
    CASE state = "INITIALIZED" -> 0
      [] state = "PUBLIC_KEY_RECEIVED" -> 1
      [] state = "ENCAPSULATED" -> 2
      [] state = "AUTHENTICATED" -> 3

\* C1: no operation moves a session to an earlier state, and no operation
\* changes the state of an authenticated session
C1_StateMovesForward ==
    [][\A h \in Handles :
          /\ Rank(sess'[h].state) >= Rank(sess[h].state)
          /\ sess[h].state = "AUTHENTICATED" => sess'[h].state = "AUTHENTICATED"]_vars

\* C1 witness: an authenticated session on which start_authentication has
\* been called again
C1_Witness ==
    /\ last.op = "start_authentication"
    /\ last.pre.state = "AUTHENTICATED"
    /\ Self.state = "AUTHENTICATED"

\* C2: start_authentication on a session that is not INITIALIZED returns the
\* invalid-state error and leaves every field of the session as it was
C2_StartOutsideInitializedChangesNothing ==
    (last.op = "start_authentication" /\ last.pre.state # "INITIALIZED")
        => /\ last.ret = ErrorResult("Invalid session state")
           /\ Self = last.pre

\* C2 witness: a second start_authentication, with a key that could be
\* encapsulated, on a session whose handshake is in progress
C2_Witness ==
    /\ last.op = "start_authentication"
    /\ last.pre.state = "ENCAPSULATED"
    /\ IsBytes(last.arg)
    /\ Self.shared_secret = last.pre.shared_secret

\* C3: when start_authentication on an INITIALIZED session has finished, the
\* state is not PUBLIC_KEY_RECEIVED; when it has returned a response the
\* state is ENCAPSULATED, key and secret are set and the two events
\* PUBLIC_KEY_RECEIVED, ENCAPSULATED have been appended
C3_StartIsAtomic ==
    (last.op = "start_authentication" /\ last.pre.state = "INITIALIZED")
        => /\ Self.state # "PUBLIC_KEY_RECEIVED"
           /\ last.ret.kind = "response"
                 => /\ Self.state = "ENCAPSULATED"
                    /\ Self.device_public_key = last.arg
                    /\ Self.shared_secret # None
                    /\ Self.events = last.pre.events
                                       \o <<"PUBLIC_KEY_RECEIVED", "ENCAPSULATED">>

\* C4: verify_authentication in state ENCAPSULATED with the first 16 bytes
\* of the shared secret returns true, stores the key and the tag derived from
\* (shared_secret, session_id), moves to AUTHENTICATED and appends the one
\* event AUTHENTICATED
C4_VerifyWithTheCommitment ==
    (/\ last.op = "verify_authentication"
     /\ last.pre.state = "ENCAPSULATED"
     /\ last.arg = Prefix(last.pre.shared_secret, COMMITMENT_SIZE))
        => /\ last.ret = BoolResult(TRUE)
           /\ Self = [last.pre EXCEPT
                        !.session_key = HMAC(last.pre.shared_secret,
                                             Encode(last.pre.session_id)),
                        !.authentication_tag = HMAC(last.pre.shared_secret,
                                                    AUTH_TAG \o Encode(last.pre.session_id)),
                        !.state = "AUTHENTICATED",
                        !.events = Append(@, "AUTHENTICATED")]

\* C4 witness: verify_authentication has returned true
C4_Witness ==
    /\ last.op = "verify_authentication"
    /\ last.pre.state = "ENCAPSULATED"
    /\ last.arg = Prefix(last.pre.shared_secret, COMMITMENT_SIZE)
    /\ last.ret = BoolResult(TRUE)

\* C5: verify_authentication in state ENCAPSULATED with any other value
\* returns false, leaves state and keys as they were and appends the one
\* event AUTHENTICATION_FAILED
C5_VerifyWithAnotherValue ==
    (/\ last.op = "verify_authentication"
     /\ last.pre.state = "ENCAPSULATED"
     /\ last.arg # Prefix(last.pre.shared_secret, COMMITMENT_SIZE))
        => /\ last.ret = BoolResult(FALSE)
           /\ Self.state = "ENCAPSULATED"
           /\ Self.session_key = None
           /\ Self.authentication_tag = None
           /\ Self = [last.pre EXCEPT !.events = Append(@, "AUTHENTICATION_FAILED")]

\* C5 witness: the whole shared secret, whose first 16 bytes are the
\* commitment, has been turned down
C5_Witness ==
    /\ last.op = "verify_authentication"
    /\ last.pre.state = "ENCAPSULATED"
    /\ last.arg = last.pre.shared_secret
    /\ last.ret = BoolResult(FALSE)

\* C6: verify_authentication returns true at most once: it returns true only
\* on a session that was not authenticated and is authenticated afterwards,
\* an authenticated session stays authenticated with the same key, and
\* verify_authentication on it returns false
C6_VerifyTrueAtMostOnce ==
    /\ [](last.op = "verify_authentication" /\ last.ret = BoolResult(TRUE)
             => last.pre.state # "AUTHENTICATED" /\ Self.state = "AUTHENTICATED")
    /\ [][\A h \in Handles :
             sess[h].state = "AUTHENTICATED"
                => /\ sess'[h].state = "AUTHENTICATED"
                   /\ sess'[h].session_key = sess[h].session_key
                   /\ (last'.op = "verify_authentication" /\ last'.h = h)
                         => last'.ret = BoolResult(FALSE)]_vars

\* C6 witness: verify_authentication with the right commitment has been
\* called on an authenticated session
C6_Witness ==
    /\ last.op = "verify_authentication"
    /\ last.pre.state = "AUTHENTICATED"
    /\ last.arg = Prefix(last.pre.shared_secret, COMMITMENT_SIZE)
    /\ last.ret = BoolResult(FALSE)

\* C7: verify_authentication in a state other than ENCAPSULATED, or without
\* a shared secret, returns false and changes nothing, the event log included
C7_VerifyOutsideEncapsulatedChangesNothing ==
    (/\ last.op = "verify_authentication"
     /\ (last.pre.state # "ENCAPSULATED" \/ last.pre.shared_secret = None))
        => /\ last.ret = BoolResult(FALSE)
           /\ Self = last.pre

\* C7 witness: verify_authentication has been called on a session that is
\* stuck in PUBLIC_KEY_RECEIVED
C7_Witness ==
    /\ last.op = "verify_authentication"
    /\ last.pre.state = "PUBLIC_KEY_RECEIVED"
    /\ last.ret = BoolResult(FALSE)

\* C8: the shared secret is set exactly in the states ENCAPSULATED and
\* AUTHENTICATED, the session key exactly in the state AUTHENTICATED
C8_KeysMatchState ==
    \A h \in Handles :
        /\ sess[h].shared_secret # None
              <=> sess[h].state \in {"ENCAPSULATED", "AUTHENTICATED"}
        /\ sess[h].session_key # None <=> sess[h].state = "AUTHENTICATED"

\* C8 witness: an authenticated session, with both set
C8_Witness ==
    /\ sess["main"].state = "AUTHENTICATED"
    /\ sess["main"].shared_secret # None
    /\ sess["main"].session_key # None

\* C9: encrypt_message and decrypt_message on a session of either class that
\* is not yet AUTHENTICATED end with the not-authenticated outcome: the error
\* result, respectively no plaintext, and nothing changed or logged
C9_NoChannelBeforeAuthenticated ==
    (/\ last.op \in {"encrypt_message", "decrypt_message"}
     /\ last.pre.state \in {"INITIALIZED", "PUBLIC_KEY_RECEIVED", "ENCAPSULATED"})
        => /\ last.op = "encrypt_message"
                 => last.ret = ErrorResult("Session not authenticated")
           /\ last.op = "decrypt_message" => last.ret = NoneResult
           /\ Self = last.pre

\* C9 witness: encrypt_message with a plaintext has been called on a session
\* of blockchain/auth_protocol.py that holds a shared secret but is not
\* authenticated
C9_Witness ==
    /\ last.op = "encrypt_message"
    /\ last.h = "main"
    /\ last.pre.state = "ENCAPSULATED"
    /\ IsBytes(last.arg)

\* C10: decrypt_message applied to the unmodified (iv, ciphertext, hmac) that
\* encrypt_message(p) of the same session returned returns p
C10_RoundTrip ==
    (/\ last.op = "decrypt_message"
     /\ sent # NoMessage
     /\ sent.h = last.h
     /\ last.arg = <<sent.msg.iv, sent.msg.ciphertext, sent.msg.hmac>>)
        => last.ret = BytesResult(sent.plaintext)

\* C10 witness: a message of exactly one block has made the round trip
C10_Witness ==
    /\ last.op = "decrypt_message"
    /\ sent # NoMessage
    /\ sent.h = last.h
    /\ last.arg = <<sent.msg.iv, sent.msg.ciphertext, sent.msg.hmac>>
    /\ Len(sent.plaintext) = BlockSize
    /\ last.ret = BytesResult(sent.plaintext)

\* C11: decrypt_message on an AUTHENTICATED session, given what
\* encrypt_message returned with the bytes of the ciphertext or of the mac
\* changed, returns no plaintext: blockchain/auth_protocol.py logs the one
\* event DECRYPTION_HMAC_FAILED, auth_protocol_fallback.py changes nothing
C11_ChangedMessageRejected ==
    (/\ last.op = "decrypt_message"
     /\ last.pre.state = "AUTHENTICATED"
     /\ sent # NoMessage
     /\ sent.h = last.h
     /\ last.arg[1] = sent.msg.iv
     /\ FromHex(last.arg[2]) # None
     /\ FromHex(last.arg[3]) # None
     /\ \/ FromHex(last.arg[2]) # FromHex(sent.msg.ciphertext)
        \/ FromHex(last.arg[3]) # FromHex(sent.msg.hmac))
        => /\ last.ret = NoneResult
           /\ last.pre.impl = "main"
                 => Self = _log_event(last.pre, "DECRYPTION_HMAC_FAILED")
           /\ last.pre.impl = "fallback" => Self = last.pre

\* C11 witness: the session of auth_protocol_fallback.py has turned down a
\* message of its own whose ciphertext was changed
C11_Witness ==
    /\ last.op = "decrypt_message"
    /\ last.h = "fallback"
    /\ last.pre.state = "AUTHENTICATED"
    /\ sent # NoMessage
    /\ sent.h = last.h
    /\ last.arg[1] = sent.msg.iv
    /\ last.arg[3] = sent.msg.hmac
    /\ FromHex(last.arg[2]) # None
    /\ FromHex(last.arg[2]) # FromHex(sent.msg.ciphertext)
    /\ last.ret = NoneResult

\* C12: when decrypt_message on an AUTHENTICATED session of either class
\* finds the supplied mac different from HMAC(session_key, ciphertext), it
\* returns no plaintext, appends the one event DECRYPTION_HMAC_FAILED and
\* nothing else, and leaves every other field, the state included, as it was
C12_MacMismatchLogged ==
    (/\ last.op = "decrypt_message"
     /\ last.pre.state = "AUTHENTICATED"
     /\ FromHex(last.arg[1]) # None
     /\ FromHex(last.arg[2]) # None
     /\ FromHex(last.arg[3]) # None
     /\ FromHex(last.arg[3]) # HMAC(last.pre.session_key, FromHex(last.arg[2])))
        => /\ last.ret = NoneResult
           /\ Self = _log_event(last.pre, "DECRYPTION_HMAC_FAILED")

\* the last call has failed: it has returned an error result, False or (from
\* decrypt_message) None, or an exception has left it
Failed ==
    \/ last.ret.kind \in {"error", "raised"}
    \/ last.ret = BoolResult(FALSE)
    \/ last.op = "decrypt_message" /\ last.ret = NoneResult

\* C13: an operation that fails leaves the state of the session as it was
\* before the call
C13_FailureKeepsState ==
    Failed => Self.state = last.pre.state

\* C14: decapsulate applied to the ciphertext that encapsulate(pk) returned
\* and to the same pk returns the shared secret of that encapsulate call,
\* which start_authentication stored in the session
C14_SecretRecovered ==
    dev.step \in {"decapsulated", "verified", "derived", "encrypted", "decrypted"}
        => /\ dev.shared_secret # None
           /\ dev.shared_secret = sess["main"].shared_secret

\* C14 witness: the device has decapsulated with a public key that is not the
\* one of its key pair
C14_Witness ==
    /\ dev.step = "decapsulated"
    /\ dev.sent_key # dev.public_key
    /\ dev.shared_secret = sess["main"].shared_secret

\* C15: after start_authentication(pk), the device's decapsulate with the
\* same pk and a verify_authentication of the first 16 bytes of its secret
\* that returned true, the key the device derives from its secret and the
\* received session_id is the session_key of the gateway's session, and the
\* device decrypts a message of that session to the bytes that were encrypted
C15_HandshakeEndToEnd ==
    /\ dev.step \in {"derived", "encrypted", "decrypted"}
          => /\ sess["main"].state = "AUTHENTICATED"
             /\ dev.session_key = sess["main"].session_key
    /\ dev.step = "decrypted" => dev.received = BytesResult(sent.plaintext)

\* C15 witness: the device has decrypted a message longer than one block
C15_Witness ==
    /\ dev.step = "decrypted"
    /\ dev.sent_key = dev.public_key
    /\ Len(sent.plaintext) > BlockSize
    /\ dev.received = BytesResult(sent.plaintext)

\* C16: the event log only grows at its end: the log before an operation is
\* a prefix of the log after it, and the event_count that get_session_info
\* reports never decreases
C16_LogAppendOnly ==
    [][\A h \in Handles :
          /\ Len(sess'[h].events) >= Len(sess[h].events)
          /\ SubSeq(sess'[h].events, 1, Len(sess[h].events)) = sess[h].events
          /\ get_session_info(sess'[h]).event_count
                >= get_session_info(sess[h]).event_count]_vars

\* C16 witness: a decrypt_message has appended an event to a log that held
\* the three events of the handshake
C16_Witness ==
    /\ last.op = "decrypt_message"
    /\ Len(last.pre.events) >= 3
    /\ Self.events = Append(last.pre.events, Self.events[Len(Self.events)])
    /\ get_session_info(Self).event_count = Len(last.pre.events) + 1

\* the last call was turned away by the state check of its operation
TurnedAway ==
    \/ last.op = "start_authentication" /\ last.pre.state # "INITIALIZED"
    \/ /\ last.op = "verify_authentication"
       /\ (last.pre.state # "ENCAPSULATED" \/ last.pre.shared_secret = None)
    \/ /\ last.op \in {"encrypt_message", "decrypt_message"}
       /\ (last.pre.state # "AUTHENTICATED" \/ last.pre.session_key = None)

\* the events that record a failure
FailureEvents ==
    {"AUTHENTICATION_FAILED", "DECRYPTION_HMAC_FAILED"}
        \cup { "DECRYPTION_ERROR: " \o message :
                 message \in {"non-hexadecimal number found in fromhex() arg",
                              "key must be bytes",
                              "Incorrect AES key length",
                              "Incorrect IV length (it must be 16 bytes long)",
                              "Data must be padded to 16 byte boundary in CBC mode",
                              "Zero-length input cannot be unpadded",
                              "Input data is not padded",
                              "Padding is incorrect.",
                              "PKCS#7 padding is incorrect."} }

\* C17 as claimed: every operation that returns a failure result has appended
\* at least one event to the log of its session
C17_EveryFailureLogged ==
    (Failed /\ last.ret.kind # "raised")
        => /\ Len(Self.events) > Len(last.pre.events)
           /\ SubSeq(Self.events, 1, Len(last.pre.events)) = last.pre.events

\* C17 as amended: an operation that its state check turns away appends no
\* event; a failure result that an operation of blockchain/auth_protocol.py
\* returns after its state check comes with exactly one appended event, one
\* that records a failure
C17_DetectedFailureLogged ==
    (Failed /\ last.ret.kind # "raised")
        => /\ TurnedAway => Self = last.pre
           /\ (~TurnedAway /\ last.pre.impl = "main")
                 => \E event \in FailureEvents : Self = _log_event(last.pre, event)

\* C17 witness: decrypt_message has found the padding wrong, has logged it
\* and has returned None
C17_Witness ==
    /\ last.op = "decrypt_message"
    /\ last.pre.impl = "main"
    /\ last.ret = NoneResult
    /\ Self = _log_event(last.pre, "DECRYPTION_ERROR: PKCS#7 padding is incorrect.")

\* C18: every call of a session operation completes with a result, success
\* or failure, whatever its argument: no exception leaves the operation
C18_NoExceptionLeaves ==
    last.ret.kind # "raised"

\* C19: with a random source that never repeats a 16-byte draw, the messages
\* that encrypt_message returns on one session all carry different IVs of 16
\* bytes, whatever their plaintexts
C19_IVsNeverRepeat ==
    \A h \in Handles :
        \A i, j \in 1..Len(ivs[h]) :
            /\ Len(FromHex(ivs[h][i].iv)) = IVSize
            /\ i # j => ivs[h][i].iv # ivs[h][j].iv

\* C19 witness: the same plaintext has been encrypted twice on one session
C19_Witness ==
    /\ Len(ivs["main"]) >= 2
    /\ ivs["main"][1].plaintext = ivs["main"][2].plaintext
    /\ ivs["main"][1].iv # ivs["main"][2].iv
    /\ last.op = "encrypt_message"

\* C20: two distinct session objects have different session_id values
C20_SessionIdsDistinct ==
    \A h1, h2 \in Handles :
        h1 # h2 => sess[h1].session_id # sess[h2].session_id

C22_DecapsulateRejectsMalformed ==
    dev.step = "decapsulated"
        => (dev.shared_secret = None
               <=> \/ Len(FromHex(dev.response.ciphertext)) # EPHEMERAL_SIZE
                   \/ Len(dev.sent_key) # 2 * KEY_SIZE)

\* the private keys a party other than the device may hand to decapsulate
OtherPrivateKeys == RandomBytes(KEY_SIZE) \cup { <<>>, Fill(KEY_SIZE, 0) }

DecryptionRan ==
    /\ last.op = "decrypt_message"
    /\ last.pre.impl = "main"
    /\ last.pre.state = "AUTHENTICATED"
    /\ FromHex(last.arg[1]) # None
    /\ FromHex(last.arg[2]) # None
    /\ FromHex(last.arg[3]) = HMAC(last.pre.session_key, FromHex(last.arg[2]))
    /\ Len(FromHex(last.arg[1])) = BlockSize
    /\ Len(FromHex(last.arg[2])) % BlockSize = 0

\* the buffer that the decryption of the last call produced
DecryptedBuffer ==
    CBCDecrypt(last.pre.session_key, FromHex(last.arg[1]), FromHex(last.arg[2]))

\* the buffer does not end in PKCS#7 padding: n bytes of value n, 1 <= n <= 16
BadPadding(d) ==
    \/ Len(d) = 0
    \/ d[Len(d)] < 1
    \/ d[Len(d)] > BlockSize
    \/ \E i \in (Len(d) - d[Len(d)] + 1)..Len(d) : d[i] # d[Len(d)]

\* C24: when the MAC check of decrypt_message passes and the decrypted
\* buffer has invalid padding, the call returns no plaintext and appends the
\* one event DECRYPTION_ERROR (with the message of the padding error), no
\* MESSAGE_DECRYPTED, and leaves the state and every other field as they were
C24_BadPaddingLogged ==
    (DecryptionRan /\ BadPadding(DecryptedBuffer))
        => /\ last.ret = NoneResult
           /\ Self.state = "AUTHENTICATED"
           /\ \E message \in {"Zero-length input cannot be unpadded",
                               "Padding is incorrect.",
                               "PKCS#7 padding is incorrect."} :
                 Self = _log_event(last.pre, "DECRYPTION_ERROR: " \o message)

\* C24 witness: a message of the session with its iv changed has passed the
\* MAC check and was turned down for its padding
C24_Witness ==
    /\ DecryptionRan
    /\ BadPadding(DecryptedBuffer)
    /\ sent # NoMessage
    /\ sent.h = last.h
    /\ last.arg[1] # sent.msg.iv
    /\ last.arg[2] = sent.msg.ciphertext
    /\ last.arg[3] = sent.msg.hmac
    /\ last.ret = NoneResult
    /\ Self.events = Append(last.pre.events,
                            "DECRYPTION_ERROR: PKCS#7 padding is incorrect.")

\* C25: every message that encrypt_message returns has an iv of 16 bytes, an
\* hmac of 32 bytes that is HMAC(session_key, ciphertext), and a ciphertext
\* of 16 * (len(plaintext) div 16 + 1) bytes, all as hex text
C25_MessageShape ==
    (last.op = "encrypt_message" /\ last.ret.kind = "message")
        => /\ Len(FromHex(last.ret.iv)) = IVSize
           /\ Len(FromHex(last.ret.hmac)) = DigestSize
           /\ FromHex(last.ret.hmac)
                 = HMAC(last.pre.session_key, FromHex(last.ret.ciphertext))
           /\ Len(FromHex(last.ret.ciphertext)) % BlockSize = 0
           /\ Len(FromHex(last.ret.ciphertext))
                 = BlockSize * ((Len(last.arg) \div BlockSize) + 1)

\* C25 witness: a plaintext of exactly 16 bytes has given a ciphertext of 32
C25_Witness ==
    /\ last.op = "encrypt_message"
    /\ last.h = "main"
    /\ last.ret.kind = "message"
    /\ Len(last.arg) = BlockSize
    /\ Len(FromHex(last.ret.ciphertext)) = 2 * BlockSize
    /\ Len(last.ret.ciphertext) = 4 * BlockSize

\* C26: the MAC check of decrypt_message does not look at the iv.  On an
\* AUTHENTICATED session, whatever the iv, the call ends with the integrity
\* failure (None returned, DECRYPTION_HMAC_FAILED logged) exactly when the
\* mac is not HMAC(session_key, ciphertext); so a message of the session with
\* only its iv changed is not turned down by the MAC check
C26_MacIgnoresIV ==
    (/\ last.op = "decrypt_message"
     /\ last.pre.impl = "main"
     /\ last.pre.state = "AUTHENTICATED"
     /\ FromHex(last.arg[1]) # None
     /\ FromHex(last.arg[2]) # None
     /\ FromHex(last.arg[3]) # None)
        => ((/\ last.ret = NoneResult
             /\ Self = _log_event(last.pre, "DECRYPTION_HMAC_FAILED"))
               <=> FromHex(last.arg[3])
                      # HMAC(last.pre.session_key, FromHex(last.arg[2])))

\* C26 witness: a message of the session with only its iv changed has passed
\* the MAC check and has come back as a plaintext that was never encrypted
C26_Witness ==
    /\ last.op = "decrypt_message"
    /\ last.pre.state = "AUTHENTICATED"
    /\ sent # NoMessage
    /\ sent.h = last.h
    /\ FromHex(last.arg[1]) # None
    /\ FromHex(last.arg[1]) # FromHex(sent.msg.iv)
    /\ last.arg[2] = sent.msg.ciphertext
    /\ last.arg[3] = sent.msg.hmac
    /\ last.ret.kind = "bytes"
    /\ last.ret # BytesResult(sent.plaintext)
    /\ Self = _log_event(last.pre, "MESSAGE_DECRYPTED")

\* the event is not a failed verification
NotAuthenticationFailed(event) == event # "AUTHENTICATION_FAILED"

\* C27: a failed verification does not lock the session.  A
\* verify_authentication with a wrong commitment leaves the session
\* ENCAPSULATED with one more AUTHENTICATION_FAILED in its log and nothing
\* else changed; in state ENCAPSULATED, however many failures the log holds,
\* a verify_authentication with the first 16 bytes of shared_secret returns
\* true and moves to AUTHENTICATED, and apart from the log the session is the
\* one that a verification without preceding failures gives
C27_FailureDoesNotLock ==
    /\ (/\ last.op = "verify_authentication"
         /\ last.pre.state = "ENCAPSULATED"
         /\ last.ret = BoolResult(FALSE))
           => /\ Self.state = "ENCAPSULATED"
              /\ Self = [last.pre EXCEPT !.events = Append(@, "AUTHENTICATION_FAILED")]
    /\ \A h \in Handles :
          (sess[h].impl = "main" /\ sess[h].state = "ENCAPSULATED")
             => LET again  == verify_authentication(
                                  sess[h], Prefix(sess[h].shared_secret, COMMITMENT_SIZE))
                    before == [sess[h] EXCEPT
                                 !.events = SelectSeq(@, NotAuthenticationFailed)]
                    first  == verify_authentication(
                                  before, Prefix(before.shared_secret, COMMITMENT_SIZE))
                IN  /\ again.ret = BoolResult(TRUE)
                    /\ again.self.state = "AUTHENTICATED"
                    /\ first.ret = BoolResult(TRUE)
                    /\ again.self = [first.self EXCEPT
                                       !.events = Append(sess[h].events, "AUTHENTICATED")]
    /\ (/\ last.op = "verify_authentication"
         /\ last.pre.state = "ENCAPSULATED"
         /\ last.arg = Prefix(last.pre.shared_secret, COMMITMENT_SIZE))
           => /\ last.ret = BoolResult(TRUE)
              /\ Self.state = "AUTHENTICATED"

\* C27 witness: verify_authentication has returned true on a session whose
\* log ends with a failed verification
C27_Witness ==
    /\ last.op = "verify_authentication"
    /\ last.pre.state = "ENCAPSULATED"
    /\ last.pre.events[Len(last.pre.events)] = "AUTHENTICATION_FAILED"
    /\ last.ret = BoolResult(TRUE)
    /\ Self.state = "AUTHENTICATED"

\* C28: when the device decapsulates with a public key that is not the one
\* the gateway's session encapsulated against, decapsulate still returns a
\* secret of 32 bytes, and verify_authentication of its first 16 bytes
\* returns false, logs AUTHENTICATION_FAILED and leaves the session
\* ENCAPSULATED
C28_MismatchedKeyRejected ==
    (dev.step \in {"decapsulated", "verified"} /\ dev.sent_key # dev.public_key)
        => /\ dev.shared_secret # None
           /\ Len(dev.shared_secret) = DigestSize
           /\ dev.step = "verified"
                 => /\ last.op = "verify_authentication"
                    /\ last.arg = Prefix(dev.shared_secret, COMMITMENT_SIZE)
                    /\ last.pre.state = "ENCAPSULATED"
                    /\ last.ret = BoolResult(FALSE)
                    /\ sess["main"].state = "ENCAPSULATED"
                    /\ sess["main"]
                          = [last.pre EXCEPT !.events = Append(@, "AUTHENTICATION_FAILED")]

\* C28 witness: the gateway held a well-formed key of another key pair and
\* has turned the device's commitment down
C28_Witness ==
    /\ dev.step = "verified"
    /\ dev.sent_key # dev.public_key
    /\ Len(dev.sent_key) = 2 * KEY_SIZE
    /\ dev.shared_secret # None
    /\ dev.shared_secret # sess["main"].shared_secret
    /\ last.ret = BoolResult(FALSE)
    /\ sess["main"].state = "ENCAPSULATED"

\* the (shared_secret, session_id) pairs create_session_key is compared on:
\* those of the sessions that hold a secret, and every secret the random
\* source can give or the empty bytes, with the session ids and the empty str
SessionKeyInputs ==
    { <<sess[h].shared_secret, sess[h].session_id>> :
        h \in { g \in Handles : sess[g].shared_secret # None } }
        \cup ((RandomBytes(DigestSize) \cup { <<>> })
                 \X ({ sess[h].session_id : h \in Handles } \cup { <<>> }))

\* C29: create_session_key(shared_secret, session_id) returns
\* HMAC(shared_secret, session_id) as session key and
\* HMAC(shared_secret, "AUTH_TAG" + session_id) as authentication tag, the
\* one of auth_protocol_fallback.py returns the same pair, and the keys an
\* authenticated session holds are that pair for its secret and session id
C29_SessionKeyDerivation ==
    /\ \A in \in SessionKeyInputs :
          /\ create_session_key(in[1], in[2]).session_key
                = HMAC(in[1], Encode(in[2]))
          /\ create_session_key(in[1], in[2]).authentication_tag
                = HMAC(in[1], AUTH_TAG \o Encode(in[2]))
          /\ fallback_create_session_key(in[1], in[2])
                = create_session_key(in[1], in[2])
    /\ \A h \in Handles :
          sess[h].state = "AUTHENTICATED"
             => /\ sess[h].session_key
                      = create_session_key(sess[h].shared_secret,
                                           sess[h].session_id).session_key
                /\ sess[h].authentication_tag
                      = fallback_create_session_key(sess[h].shared_secret,
                                                    sess[h].session_id).authentication_tag

\* C29 witness: both sessions are authenticated, one with the keys of
\* blockchain/auth_protocol.py and one with those of auth_protocol_fallback.py,
\* and key and tag differ
C29_Witness ==
    /\ sess["main"].state = "AUTHENTICATED"
    /\ sess["fallback"].state = "AUTHENTICATED"
    /\ last.op = "verify_authentication"
    /\ last.ret = BoolResult(TRUE)
    /\ sess["main"].session_key
          = fallback_create_session_key(sess["main"].shared_secret,
                                        sess["main"].session_id).session_key
    /\ sess["main"].session_key # sess["main"].authentication_tag
    /\ sess["fallback"].session_key
          = create_session_key(sess["fallback"].shared_secret,
                               sess["fallback"].session_id).session_key

\* C30 as claimed: the 'commitment' field of the response of
\* start_authentication, passed back to verify_authentication of the same
\* session, makes it return true and authenticates the session
C30_CommitmentFieldAuthenticates ==
    [][(/\ last.op = "start_authentication"
        /\ last.ret.kind = "response"
        /\ last'.op = "verify_authentication"
        /\ last'.h = last.h
        /\ last'.arg = last.ret.commitment)
          => /\ last'.ret = BoolResult(TRUE)
             /\ sess'[last'.h].state = "AUTHENTICATED"]_vars

\* C30 as amended: the bytes that the 'commitment' field of the response is
\* the hex text of, passed back to verify_authentication of the same
\* session, make it return true and authenticate the session, with the keys
\* derived and no decapsulate called; the field itself, a str, is turned down
C30_DecodedCommitmentAuthenticates ==
    [][(/\ last.op = "start_authentication"
        /\ last.ret.kind = "response"
        /\ last'.op = "verify_authentication"
        /\ last'.h = last.h)
          => /\ last'.arg = FromHex(last.ret.commitment)
                   => /\ last'.ret = BoolResult(TRUE)
                      /\ sess'[last'.h] = authenticate(sess[last.h])
                      /\ sess'[last'.h].state = "AUTHENTICATED"
             /\ last'.arg = last.ret.commitment
                   => /\ last'.ret = BoolResult(FALSE)
                      /\ sess'[last'.h].state = "ENCAPSULATED"]_vars

\* C30 witness: a session has been authenticated by the decoded commitment
\* of its own response, right after start_authentication
C30_Witness ==
    /\ last.op = "verify_authentication"
    /\ last.pre.events = <<"PUBLIC_KEY_RECEIVED", "ENCAPSULATED">>
    /\ dev = NoDevice
    /\ last.arg = Prefix(last.pre.shared_secret, COMMITMENT_SIZE)
    /\ last.ret = BoolResult(TRUE)
    /\ Self.state = "AUTHENTICATED"
    /\ Self.session_key # None

-----------------------------------------------------------------------------
(* Properties of the session over its whole life *)

\* the fields that hold key material
KeyMaterial == {"device_public_key", "shared_secret", "session_key", "authentication_tag"}

\* the fields that __init__ sets and that name the session
Identity == {"session_id", "device_id", "gateway_id"}

\* C31: key material is write-once: an operation never changes a
\* device_public_key, shared_secret, session_key or authentication_tag that
\* has been set, and never changes session_id, device_id or gateway_id
C31_KeyMaterialWriteOnce ==
    [][\A h \in Handles :
          /\ \A f \in KeyMaterial : sess[h][f] # None => sess'[h][f] = sess[h][f]
          /\ \A f \in Identity : sess'[h][f] = sess[h][f]]_vars

\* C31 witness: start_authentication has been called with another value for
\* the public key (its hex text) on a session that holds all four keys, and
\* the session holds them still
C31_Witness ==
    /\ last.op = "start_authentication"
    /\ IsStr(last.arg)
    /\ \A f \in KeyMaterial : last.pre[f] # None /\ Self[f] = last.pre[f]
    /\ last.arg # Self.device_public_key
    /\ \A f \in Identity : Self[f] = last.pre[f]

\* the events that decrypt_message appends
DecryptionEvents == {"MESSAGE_DECRYPTED"} \cup (FailureEvents \ {"AUTHENTICATION_FAILED"})

\* the places of an event in a log
Places(events, event) == { i \in 1..Len(events) : events[i] = event }

\* C32: the event log reflects the protocol order: a log that is not empty
\* starts with PUBLIC_KEY_RECEIVED, ENCAPSULATED, each occurring once;
\* AUTHENTICATED occurs at most once, and occurs exactly when the state is
\* AUTHENTICATED; every AUTHENTICATION_FAILED lies after ENCAPSULATED and
\* before AUTHENTICATED; every event of decrypt_message lies after
\* AUTHENTICATED
C32_LogReflectsProtocolOrder ==
    \A h \in Handles :
        LET events == sess[h].events
        IN  /\ events # <<>>
                 => /\ Len(events) >= 2
                    /\ events[1] = "PUBLIC_KEY_RECEIVED"
                    /\ events[2] = "ENCAPSULATED"
                    /\ Places(events, "PUBLIC_KEY_RECEIVED") = {1}
                    /\ Places(events, "ENCAPSULATED") = {2}
            /\ Cardinality(Places(events, "AUTHENTICATED")) <= 1
            /\ Places(events, "AUTHENTICATED") # {} <=> sess[h].state = "AUTHENTICATED"
            /\ \A i \in Places(events, "AUTHENTICATION_FAILED") :
                  /\ \E j \in Places(events, "ENCAPSULATED") : j < i
                  /\ \A j \in Places(events, "AUTHENTICATED") : i < j
            /\ \A i \in 1..Len(events) :
                  events[i] \in DecryptionEvents
                     => \E j \in Places(events, "AUTHENTICATED") : j < i

\* C33: encrypt_message changes nothing in the session, whether it returns a
\* message, returns an error or is left by an exception: state, keys and
\* event log are after the call what they were before it.  A decrypt_message
\* of blockchain/auth_protocol.py that returns a plaintext appends the one
\* event MESSAGE_DECRYPTED and changes nothing else
C33_EncryptLeavesSession ==
    /\ last.op = "encrypt_message" => Self = last.pre
    /\ (last.op = "decrypt_message" /\ last.pre.impl = "main" /\ last.ret.kind = "bytes")
          => Self = _log_event(last.pre, "MESSAGE_DECRYPTED")

\* C33 witness: encrypt_message has returned a message on an authenticated
\* session whose log holds a MESSAGE_DECRYPTED, and the session is as before
C33_Witness ==
    /\ last.op = "encrypt_message"
    /\ last.ret.kind = "message"
    /\ last.pre.state = "AUTHENTICATED"
    /\ Places(last.pre.events, "MESSAGE_DECRYPTED") # {}
    /\ Self = last.pre

-----------------------------------------------------------------------------
(* A message handed to decrypt_message again *)

\* the plaintexts a caller encrypts: the empty one and one of one block
ResendPlaintextArgs == { <<>>, Fill(BlockSize, 1) }

\* (iv_hex, ciphertext_hex, hmac_hex) of a message
Tuple(msg) == <<msg.iv, msg.ciphertext, msg.hmac>>

\* a method called on object h, the log being allowed MaxLog events
ResendCall(h, op, arg, r) ==
    /\ Len(r.self.events) <= MaxLog
    /\ sess' = [sess EXCEPT ![h] = r.self]
    /\ last' = [op |-> op, h |-> h, arg |-> arg, pre |-> sess[h], ret |-> r.ret]

\* start_authentication with the key of the device
ResendStart(h) ==
    /\ sess[h].impl = "main"
    /\ \E kp \in DeviceKeypairs :
          \E seed \in SeedDraws(sess[h], kp.public_key) :
              ResendCall(h, "start_authentication", kp.public_key,
                         start_authentication(sess[h], kp.public_key, seed))
    /\ UNCHANGED <<sent, Surroundings>>

\* verify_authentication with the commitment
ResendVerify(h) ==
    /\ sess[h].state = "ENCAPSULATED"
    /\ LET c == Prefix(sess[h].shared_secret, COMMITMENT_SIZE)
       IN  ResendCall(h, "verify_authentication", c, verify_authentication(sess[h], c))
    /\ UNCHANGED <<sent, Surroundings>>

\* encrypt_message: the message returned is in flight, and the caller keeps
\* it for later when it has kept none so far, or lets it go
ResendEncrypt(h) ==
    /\ sess[h].impl = "main"
    /\ \E p \in ResendPlaintextArgs, iv \in IVDraws(sess[h]) :
          LET r == encrypt_message(sess[h], p, iv)
              m == [kind |-> "message", h |-> h, plaintext |-> p, msg |-> r.ret]
          IN  /\ ResendCall(h, "encrypt_message", p, r)
              /\ sent' = IF r.ret.kind = "message" THEN m ELSE NoMessage
              /\ \/ UNCHANGED held
                 \/ /\ r.ret.kind = "message"
                    /\ held = NoMessage
                    /\ held' = [kind |-> "message", h |-> h, plaintext |-> p,
                                msg |-> r.ret, accepted |-> 0]
    /\ UNCHANGED <<dev, rng, ivs, clock, alone, gw>>

\* the messages handed to decrypt_message: the one in flight, as it is or
\* with its MAC changed, and the one the caller has kept
ResendMessageArgs(h) ==
    (IF sent # NoMessage /\ sent.h = h
     THEN { Tampered(sent.msg, how) : how \in {"unmodified", "hmac"} } ELSE {})
        \cup (IF held # NoMessage /\ held.h = h THEN { held.msg } ELSE {})

\* decrypt_message: the caller counts the times the kept message is accepted
ResendDecrypt(h) ==
    /\ sess[h].impl = "main"
    /\ \E m \in ResendMessageArgs(h) :
          LET r == decrypt_message(sess[h], m.iv, m.ciphertext, m.hmac)
          IN  /\ ResendCall(h, "decrypt_message", Tuple(m), r)
              /\ held' = IF held # NoMessage /\ held.h = h
                            /\ Tuple(m) = Tuple(held.msg) /\ r.ret.kind = "bytes"
                         THEN [held EXCEPT !.accepted = @ + 1]
                         ELSE held
    /\ UNCHANGED <<sent, dev, rng, ivs, clock, alone, gw>>

NextResend ==
    \E h \in Handles :
        \/ ResendStart(h)
        \/ ResendVerify(h)
        \/ ResendEncrypt(h)
        \/ ResendDecrypt(h)

SpecResend == Init /\ [][NextResend]_vars

\* C34: decrypt_message has no replay protection: a message that an
\* authenticated session has produced is accepted by that session every time
\* it is handed in, whatever other messages were handed in before or in
\* between: the call returns the plaintext of the message and appends the one
\* event MESSAGE_DECRYPTED
C34_NoReplayProtection ==
    (/\ last.op = "decrypt_message"
     /\ held # NoMessage
     /\ last.h = held.h
     /\ last.arg = Tuple(held.msg))
        => /\ last.ret = BytesResult(held.plaintext)
           /\ Self = _log_event(last.pre, "MESSAGE_DECRYPTED")

\* C34 witness: the kept message has been accepted for the second time, the
\* session having accepted it once and then rejected another message in
\* between; both MESSAGE_DECRYPTED events of the log are those of the kept
\* message
C34_Witness ==
    /\ last.op = "decrypt_message"
    /\ held # NoMessage
    /\ last.arg = Tuple(held.msg)
    /\ last.ret = BytesResult(held.plaintext)
    /\ held.accepted = 2
    /\ SubSeq(Self.events, 4, Len(Self.events))
          = <<"MESSAGE_DECRYPTED", "DECRYPTION_HMAC_FAILED", "MESSAGE_DECRYPTED">>

-----------------------------------------------------------------------------
(* The messages of one session handed to another *)

\* two objects of blockchain/auth_protocol.py made at the same reading of the
\* clock, the second for the device d
CrossSessions(d) ==
    [h \in Handles |->
        IF h = "main" THEN NewSession(DEVICE_001, GATEWAY_001, 0, 0)
        ELSE NewSession(d, GATEWAY_001, 0, 0)]

\* the second session is for the same device, and then has the same
\* session_id, or for the device "D"
InitCross ==
    /\ InitSurroundings
    /\ \E d \in { DEVICE_001, <<Chr(68)>> } : sess = CrossSessions(d)
    /\ sent = NoMessage
    /\ last = [op |-> "__init__", h |-> "main", arg |-> <<>>,
               pre |-> sess["main"], ret |-> NoneResult]

\* start_authentication with the key of the device
CrossStart(h) ==
    /\ \E kp \in DeviceKeypairs :
          \E seed \in SeedDraws(sess[h], kp.public_key) :
              Call(h, "start_authentication", kp.public_key,
                   start_authentication(sess[h], kp.public_key, seed))
    /\ UNCHANGED <<sent, Surroundings>>

\* verify_authentication with the commitment
CrossVerify(h) ==
    /\ sess[h].state = "ENCAPSULATED"
    /\ LET c == Prefix(sess[h].shared_secret, COMMITMENT_SIZE)
       IN  Call(h, "verify_authentication", c, verify_authentication(sess[h], c))
    /\ UNCHANGED <<sent, Surroundings>>

\* encrypt_message: the message returned is in flight
CrossEncrypt(h) ==
    /\ \E iv \in IVDraws(sess[h]) :
          LET p == Fill(BlockSize, 1)
              r == encrypt_message(sess[h], p, iv)
          IN  /\ Call(h, "encrypt_message", p, r)
              /\ sent' = IF r.ret.kind = "message"
                         THEN [kind |-> "message", h |-> h, plaintext |-> p,
                               msg |-> r.ret]
                         ELSE NoMessage
    /\ UNCHANGED Surroundings

\* decrypt_message: the message in flight is handed to a session, the one
\* that produced it or the other one
CrossDecrypt(h) ==
    /\ sent # NoMessage
    /\ Call(h, "decrypt_message", Tuple(sent.msg),
            decrypt_message(sess[h], sent.msg.iv, sent.msg.ciphertext, sent.msg.hmac))
    /\ UNCHANGED <<sent, Surroundings>>

NextCross ==
    \E h \in Handles :
        \/ CrossStart(h)
        \/ CrossVerify(h)
        \/ CrossEncrypt(h)
        \/ CrossDecrypt(h)

SpecCross == InitCross /\ [][NextCross]_vars

\* C35: a message that one authenticated session has encrypted is rejected
\* by every authenticated session with another session_key: its
\* decrypt_message fails the integrity check, logs DECRYPTION_HMAC_FAILED and
\* returns None
C35_OtherKeyRejects ==
    (/\ last.op = "decrypt_message"
     /\ sent # NoMessage
     /\ last.arg = Tuple(sent.msg)
     /\ last.pre.state = "AUTHENTICATED"
     /\ sess[sent.h].state = "AUTHENTICATED"
     /\ last.pre.session_key # sess[sent.h].session_key)
        => /\ last.ret = NoneResult
           /\ Self = _log_event(last.pre, "DECRYPTION_HMAC_FAILED")

\* C35 witness: a session has rejected the message of a session that has the
\* same session_id and another shared secret
C35_Witness ==
    /\ last.op = "decrypt_message"
    /\ sent # NoMessage
    /\ sent.h # last.h
    /\ last.arg = Tuple(sent.msg)
    /\ last.pre.state = "AUTHENTICATED"
    /\ last.pre.session_id = sess[sent.h].session_id
    /\ last.pre.shared_secret # sess[sent.h].shared_secret
    /\ last.ret = NoneResult
    /\ Self = _log_event(last.pre, "DECRYPTION_HMAC_FAILED")

-----------------------------------------------------------------------------
(* Properties of the session of auth_protocol_fallback.py *)

\* C36: the session of auth_protocol_fallback.py has no operation that
\* changes its state or sets its session_key: through its own operations it
\* stays INITIALIZED without a key, every encrypt_message returns the
\* not-authenticated error and every decrypt_message returns None
C36_FallbackStaysInitialized ==
    \A h \in Handles :
        sess[h].impl = "fallback"
           => /\ sess[h].state = "INITIALIZED"
              /\ sess[h].session_key = None
              /\ (last.h = h /\ last.op = "encrypt_message")
                    => last.ret = ErrorResult("Session not authenticated")
              /\ (last.h = h /\ last.op = "decrypt_message")
                    => last.ret = NoneResult

\* C36 witness: encrypt_message has been called with a plaintext of one
\* block on the session of auth_protocol_fallback.py and has returned the
\* error, the session of the other class being authenticated by then
C36_Witness ==
    /\ last.op = "encrypt_message"
    /\ last.pre.impl = "fallback"
    /\ last.arg = Fill(BlockSize, 1)
    /\ last.ret = ErrorResult("Session not authenticated")
    /\ Self = NewFallbackSession(DEVICE_001, GATEWAY_001, 0, 0)
    /\ \E g \in Handles : sess[g].state = "AUTHENTICATED"

-----------------------------------------------------------------------------
(* IoTMGateway of gateway/__init__.py *)

\* the sizes of the byte strings the gateway draws and cuts
GatewayPrivateKeySize == 64
GatewaySaltSize == 32
GatewaySeedSize == 32
GatewayCommitmentSize == 16

\* a dict is a function on its keys: the empty dict, d[k] = v and del d[k]
EmptyDict == [k \in {} |-> None]

Put(d, k, v) == [x \in DOMAIN d \cup {k} |-> IF x = k THEN v ELSE d[x]]

Del(d, k) == [x \in DOMAIN d \ {k} |-> d[x]]

\* _generate_gateway_keys(), with the two draws of the random source as
\* arguments
_generate_gateway_keys(private_key, salt) ==
    [private_key |-> Hex(private_key),
     public_key  |-> Hex(SHA256(private_key) \o salt),
     algorithm   |-> "Hash-based KEM (Kyber simulation)"]

\* IoTMGateway.__init__; created_at is not modelled
NewGateway(gateway_id, location, blockchain_provider, private_key, salt) ==
    [kind                  |-> "gateway",
     gateway_id            |-> gateway_id,
     location              |-> location,
     blockchain_provider   |-> blockchain_provider,
     connected_devices     |-> EmptyDict,
     device_keys           |-> EmptyDict,
     gateway_key_pair      |-> _generate_gateway_keys(private_key, salt),
     authenticated_devices |-> {},
     auth_log              |-> <<>>]

\* IoTMGateway._log_event(event_type, device_id, message); the timestamp of
\* the entry is not modelled
gateway_log_event(self, event_type, device_id, message) ==
    [self EXCEPT !.auth_log = Append(@, [event_type |-> event_type,
                                         device_id  |-> device_id,
                                         message    |-> message,
                                         gateway_id |-> self.gateway_id])]

\* register_device(device_id, device_obj)
register_device(self, device_id, device_obj) ==
    IF device_id \in DOMAIN self.connected_devices
    THEN [self |-> gateway_log_event(self, "REGISTER_FAILED", device_id,
                                     "Device already registered"),
          ret  |-> BoolResult(FALSE)]
    ELSE [self |-> gateway_log_event(
                      [self EXCEPT !.connected_devices = Put(@, device_id, device_obj)],
                      "DEVICE_REGISTERED", device_id, "Device registered"),
          ret  |-> BoolResult(TRUE)]

\* a faulty variant of unregister_device: the device stays authenticated
unregister_device_keeping_authenticated(self, device_id) ==
    IF device_id \notin DOMAIN self.connected_devices
    THEN [self |-> self, ret |-> BoolResult(FALSE)]
    ELSE [self |-> gateway_log_event(
                      [self EXCEPT !.connected_devices = Del(@, device_id)],
                      "DEVICE_UNREGISTERED", device_id, "Device unregistered"),
          ret  |-> BoolResult(TRUE)]

\* unregister_device(device_id): device_keys is left as it is
unregister_device(self, device_id) ==
    IF device_id \notin DOMAIN self.connected_devices
    THEN [self |-> self, ret |-> BoolResult(FALSE)]
    ELSE [self |-> gateway_log_event(
                      [self EXCEPT !.connected_devices = Del(@, device_id),
                                   !.authenticated_devices = @ \ {device_id}],
                      "DEVICE_UNREGISTERED", device_id, "Device unregistered"),
          ret  |-> BoolResult(TRUE)]

\* str(e) of the TypeError that ephemeral_key + device_public_key raises
ConcatError(device_public_key) ==
    IF device_public_key = None THEN "can't concat NoneType to bytes"
    ELSE "can't concat str to bytes"

\* the keys stored and the result returned by authenticate_device for a
\* public key that is a bytes object; the timestamps are not modelled
Encapsulated(device_id, device_public_key, ephemeral_seed) ==
    LET ephemeral_key == SHA256(ephemeral_seed)
        shared_secret == SHA256(ephemeral_key \o device_public_key)
    IN  [keys   |-> [public_key    |-> Hex(device_public_key),
                     shared_secret |-> Hex(shared_secret)],
         result |-> [kind       |-> "auth_result",
                     device_id  |-> device_id,
                     status     |-> "AUTHENTICATED",
                     ciphertext |-> Hex(ephemeral_seed),
                     shared_secret_commitment
                                |-> Hex(Prefix(shared_secret, GatewayCommitmentSize))]]

\* a faulty variant of authenticate_device: the keys of a device that has
\* keys already are kept
authenticate_device_keeping_keys(self, device_id, device_public_key, ephemeral_seed) ==
    IF device_id \notin DOMAIN self.connected_devices
    THEN [self |-> gateway_log_event(self, "AUTH_FAILED", device_id,
                                     "Device not registered"),
          ret  |-> NoneResult]
    ELSE IF ~IsBytes(device_public_key)
    THEN [self |-> gateway_log_event(self, "AUTH_ERROR", device_id,
                      "Authentication error: " \o ConcatError(device_public_key)),
          ret  |-> NoneResult]
    ELSE LET kem == Encapsulated(device_id, device_public_key, ephemeral_seed)
         IN  [self |-> gateway_log_event(
                          [self EXCEPT
                             !.device_keys =
                                 IF device_id \in DOMAIN @ THEN @
                                 ELSE Put(@, device_id, kem.keys),
                             !.authenticated_devices = @ \cup {device_id}],
                          "DEVICE_AUTHENTICATED", device_id,
                          "Authentication successful - KEM completed"),
              ret  |-> kem.result]

\* authenticate_device(device_id, device_public_key), with the draw of the
\* ephemeral seed as argument
authenticate_device(self, device_id, device_public_key, ephemeral_seed) ==
    IF device_id \notin DOMAIN self.connected_devices
    THEN [self |-> gateway_log_event(self, "AUTH_FAILED", device_id,
                                     "Device not registered"),
          ret  |-> NoneResult]
    ELSE IF ~IsBytes(device_public_key)
    THEN [self |-> gateway_log_event(self, "AUTH_ERROR", device_id,
                      "Authentication error: " \o ConcatError(device_public_key)),
          ret  |-> NoneResult]
    ELSE LET kem == Encapsulated(device_id, device_public_key, ephemeral_seed)
         IN  [self |-> gateway_log_event(
                          [self EXCEPT
                             !.device_keys = Put(@, device_id, kem.keys),
                             !.authenticated_devices = @ \cup {device_id}],
                          "DEVICE_AUTHENTICATED", device_id,
                          "Authentication successful - KEM completed"),
              ret  |-> kem.result]

\* submit_to_blockchain(device_id, contract_instance)
submit_to_blockchain(self, device_id, contract_instance) ==
    IF device_id \notin DOMAIN self.device_keys
    THEN [self |-> gateway_log_event(self, "BLOCKCHAIN_SUBMIT_FAILED", device_id,
                                     "Device not authenticated"),
          ret  |-> BoolResult(FALSE)]
    ELSE IF self.blockchain_provider = None /\ contract_instance = None
    THEN [self |-> gateway_log_event(self, "BLOCKCHAIN_READY", device_id,
                      "Device key ready for blockchain submission (Phase 3)"),
          ret  |-> BoolResult(TRUE)]
    ELSE [self |-> gateway_log_event(self, "BLOCKCHAIN_SUBMITTED", device_id,
                      "Device key submitted to blockchain smart contract"),
          ret  |-> BoolResult(TRUE)]

\* the gateway of __main__: create_gateway("GATEWAY_001", location), without
\* a blockchain provider
Gateway001 ==
    NewGateway(GATEWAY_001, <<Chr(87)>>, None,
               Fill(GatewayPrivateKeySize, 5), Fill(GatewaySaltSize, 6))

\* the devices: "D1" and "D2", and the object of a device
GatewayDeviceIds == { DEVICE_001, <<Chr(68), Chr(50)>> }

DeviceObject(device_id) == <<Chr(111)>> \o device_id

\* device_public_key: the key of a device and its hex text (a str)
GatewayPublicKeyArgs ==
    { kp.public_key : kp \in DeviceKeypairs }
        \cup { Hex(kp.public_key) : kp \in DeviceKeypairs }

\* contract_instance: None and a contract
ContractArgs == { None, <<Chr(67)>> }

InitGateway ==
    /\ dev = NoDevice
    /\ rng = 0
    /\ ivs = [h \in Handles |-> <<>>]
    /\ clock = 0
    /\ alone = [h \in Handles |-> None]
    /\ held = NoMessage
    /\ sess = [h \in Handles |-> None]
    /\ sent = NoMessage
    /\ gw = Gateway001
    /\ last = [op |-> "__init__", h |-> "gateway", arg |-> <<>>,
               pre |-> Gateway001, ret |-> NoneResult]

\* a method called on the gateway
GatewayCall(op, arg, r) ==
    /\ Len(r.self.auth_log) <= MaxAuthLog
    /\ gw' = r.self
    /\ last' = [op |-> op, h |-> "gateway", arg |-> arg, pre |-> gw, ret |-> r.ret]
    /\ UNCHANGED <<sess, sent, dev, rng, ivs, clock, alone, held>>

RegisterDevice ==
    \E d \in GatewayDeviceIds :
        GatewayCall("register_device", [device_id |-> d],
                    register_device(gw, d, DeviceObject(d)))

UnregisterDevice ==
    \E d \in GatewayDeviceIds :
        GatewayCall("unregister_device", [device_id |-> d], unregister_device(gw, d))

\* the ephemeral seed is drawn when the device is registered
AuthenticateDevice ==
    \E d \in GatewayDeviceIds, pk \in GatewayPublicKeyArgs :
        \E seed \in (IF d \in DOMAIN gw.connected_devices
                     THEN RandomBytes(GatewaySeedSize) ELSE { None }) :
            GatewayCall("authenticate_device",
                        [device_id |-> d, device_public_key |-> pk],
                        authenticate_device(gw, d, pk, seed))

SubmitToBlockchain ==
    \E d \in GatewayDeviceIds, c \in ContractArgs :
        GatewayCall("submit_to_blockchain",
                    [device_id |-> d, contract_instance |-> c],
                    submit_to_blockchain(gw, d, c))

NextGateway ==
    \/ RegisterDevice
    \/ UnregisterDevice
    \/ AuthenticateDevice
    \/ SubmitToBlockchain

SpecGateway == InitGateway /\ [][NextGateway]_vars

-----------------------------------------------------------------------------
(* Properties of the gateway *)

\* C37: authenticated_devices is a subset of the keys of connected_devices;
\* authenticate_device on a device that is not registered returns None and
\* adds nothing to authenticated_devices; an unregister_device that returns
\* True has removed the device from both collections
C37_AuthenticatedAreConnected ==
    /\ gw.authenticated_devices \subseteq DOMAIN gw.connected_devices
    /\ (/\ last.op = "authenticate_device"
        /\ last.arg.device_id \notin DOMAIN last.pre.connected_devices)
          => /\ last.ret = NoneResult
             /\ gw.authenticated_devices = last.pre.authenticated_devices
             /\ gw.connected_devices = last.pre.connected_devices
    /\ (last.op = "unregister_device" /\ last.ret = BoolResult(TRUE))
          => /\ last.arg.device_id \notin DOMAIN gw.connected_devices
             /\ last.arg.device_id \notin gw.authenticated_devices

\* C37 witness: of two registered devices the authenticated one has been
\* unregistered: it is in neither collection, the other one is connected
C37_Witness ==
    /\ last.op = "unregister_device"
    /\ last.ret = BoolResult(TRUE)
    /\ DOMAIN last.pre.connected_devices = GatewayDeviceIds
    /\ last.pre.authenticated_devices = {last.arg.device_id}
    /\ gw.authenticated_devices = {}
    /\ DOMAIN gw.connected_devices = GatewayDeviceIds \ {last.arg.device_id}

\* C38: submit_to_blockchain returns True only for a device that is in
\* authenticated_devices when it is called; for a device that is not, never
\* authenticated or authenticated and then unregistered, it returns False
\* and logs BLOCKCHAIN_SUBMIT_FAILED
C38_SubmitOnlyAuthenticated ==
    (/\ last.op = "submit_to_blockchain"
     /\ last.arg.device_id \notin last.pre.authenticated_devices)
        => /\ last.ret = BoolResult(FALSE)
           /\ Len(gw.auth_log) = Len(last.pre.auth_log) + 1
           /\ gw.auth_log[Len(gw.auth_log)].event_type = "BLOCKCHAIN_SUBMIT_FAILED"

\* C39: authenticate_device marks a registered device as authenticated in
\* the call that produces the ciphertext: when it returns its result the
\* device is in authenticated_devices and the shared secret of this
\* ciphertext is stored in device_keys, no commitment or other answer of the
\* device having been received; a repeated call replaces the stored secret
C39_AuthenticatedOnEncapsulation ==
    last.op = "authenticate_device"
       => LET d  == last.arg.device_id
              pk == last.arg.device_public_key
          IN  /\ (d \in DOMAIN last.pre.connected_devices /\ IsBytes(pk))
                    => last.ret.kind = "auth_result"
              /\ last.ret.kind = "auth_result"
                    => LET seed   == FromHex(last.ret.ciphertext)
                           secret == SHA256(SHA256(seed) \o pk)
                       IN  /\ last.ret.status = "AUTHENTICATED"
                           /\ d \in gw.authenticated_devices
                           /\ d \in DOMAIN gw.device_keys
                           /\ gw.device_keys[d].shared_secret = Hex(secret)
                           /\ gw.auth_log = Append(last.pre.auth_log,
                                                   gw.auth_log[Len(gw.auth_log)])

\* C39 witness: authenticate_device has been called again for a device that
\* was authenticated, and the stored shared secret is another one than before
C39_Witness ==
    /\ last.op = "authenticate_device"
    /\ last.ret.kind = "auth_result"
    /\ last.arg.device_id \in last.pre.authenticated_devices
    /\ last.arg.device_id \in gw.authenticated_devices
    /\ gw.device_keys[last.arg.device_id].shared_secret
          # last.pre.device_keys[last.arg.device_id].shared_secret

====
